---------------------------- MODULE Spec2Model ----------------------------
(***************************************************************************)
(* Model of the ensemble extraction handler of terraguard                  *)
(* (src/app/src/app/api/extract/ensemble/route.ts), with its salvager of   *)
(* model output at the level of characters, and of the need normalizer,    *)
(* the risk scorer and the facility matcher of src/lib/risk.ts             *)
(* (src/unnamed/part_010), and of the reports slice                        *)
(* (src/src/slices/reportsSlice.ts) with the thunks it reduces.            *)
(*                                                                         *)
(* Representation of JavaScript values:                                    *)
(*   - a string is a sequence of one-character strings, <<"o","a","k">>;   *)
(*     a timestamp string is a one-element sequence holding its text;      *)
(*   - null and undefined are NULL;                                        *)
(*   - a number that the code rounds with toFixed(3) is kept as an exact   *)
(*     fraction [num, den] and rounded to an integer count of thousandths. *)
(***************************************************************************)
EXTENDS Integers, Sequences, FiniteSets, TLC

VARIABLES
    pc,         \* position of POST: "start", "probing", "generating", "done"
    body,       \* the parsed request body
    samples,    \* const samples (line 207)
    i,          \* loop index of the generation call in flight (line 223)
    ping,       \* const ping (line 212): "none", "pending", "ok", "failed"
    tagsCalls,  \* GET /api/tags calls issued
    genCalls,   \* POST /api/generate calls issued
    failures,   \* generation calls that answered non-2xx or were rejected
    outputs,    \* attempts whose content was non-empty (line 244 not taken)
    runs,       \* const runs (line 222)
    buckets,    \* const buckets (line 253), in Map insertion order
    k,          \* const k (line 293)
    response,   \* the response of POST
    ncIn,       \* needsConsensus: argument allNeeds
    ncK,        \* needsConsensus: argument k
    ncOut,      \* needsConsensus: result
    ncPc,       \* needsConsensus: "build", "done"
    detRuns,    \* replayed merge: the salvaged runs
    detOut,     \* replayed merge: the merged records of each execution
    detPc,      \* replayed merge: number of executions done
    rkIn,       \* computeRiskScore: the argument and the clock (Date.now)
    rkOut,      \* computeRiskScore: result
    rkPc,       \* computeRiskScore: "call", "done"
    nnIn,       \* normalizeNeeds: argument needs
    nnOut,      \* normalizeNeeds: result
    nnPc,       \* normalizeNeeds: "build", "done"
    sfIn,       \* suggestFacilities: arguments needs, facilities, limit
    sfOut,      \* suggestFacilities: result
    sfPc,       \* suggestFacilities: "call", "done"
    mjIn,       \* majority: argument arr
    mjOut,      \* majority: result
    mjPc,       \* majority: "build", "done"
    svIn,       \* parseModelJson: argument raw
    svOut,      \* parseModelJson: candidates and result
    svPc,       \* parseModelJson: "call", "done"
    kyIn,       \* makeKey: the two candidates that are bucketed
    kyOut,      \* makeKey: their keys and the buckets they fall into
    kyPc,       \* makeKey: "call", "done"
    slItems,    \* reports slice: state.items
    slStatus,   \* reports slice: state.status
    slError,    \* reports slice: state.error
    slPending,  \* extraction thunks in flight, per thunk
    slAnnotating, \* annotateReports thunks in flight: the items each will return
    slAction    \* the action the store reduced last

handlerVars ==
    <<pc, body, samples, i, ping, tagsCalls, genCalls, failures, outputs, runs, k, response>>
ncVars == <<ncIn, ncK, ncOut, ncPc>>
detVars == <<detRuns, detOut, detPc>>
rkVars == <<rkIn, rkOut, rkPc>>
nnVars == <<nnIn, nnOut, nnPc>>
sfVars == <<sfIn, sfOut, sfPc>>
mjVars == <<mjIn, mjOut, mjPc>>
svVars == <<svIn, svOut, svPc>>
fnVars == <<rkVars, nnVars, sfVars, mjVars, svVars>>
kyVars == <<kyIn, kyOut, kyPc>>
slVars == <<slItems, slStatus, slError, slPending, slAnnotating, slAction>>
extVars == <<kyVars, slVars>>
vars == <<handlerVars, buckets, ncVars, detVars, fnVars, extVars>>

---------------------------------------------------------------------------
\* Bounds of the model

MaxSamplesIn == 3
MaxK == 5
MaxCands == 3
MaxDetRuns == 2

---------------------------------------------------------------------------
\* JavaScript strings

NULL == <<"null">>

Uppers == <<"A","B","C","D","E","F","G","H","I","J","K","L","M",
            "N","O","P","Q","R","S","T","U","V","W","X","Y","Z">>
Lowers == <<"a","b","c","d","e","f","g","h","i","j","k","l","m",
            "n","o","p","q","r","s","t","u","v","w","x","y","z">>

\* The characters of the model in UTF-16 code unit order.
CodeUnits == <<" ", "\"", "&", ",", "-", "0", "1", "2", "3", "4", "5", "6",
               "7", "8", "9", ":">> \o Uppers \o Lowers \o <<"|">>

CharCode(c) == CHOOSE n \in DOMAIN CodeUnits : CodeUnits[n] = c

toLowerChar(c) ==
    IF \E n \in DOMAIN Uppers : Uppers[n] = c
    THEN Lowers[CHOOSE n \in DOMAIN Uppers : Uppers[n] = c]
    ELSE c

toLowerCase(s) == [n \in 1..Len(s) |-> toLowerChar(s[n])]

IsWhiteSpace(c) == c \in {" ", "\t", "\n", "\r"}

RECURSIVE trimStart(_)
trimStart(s) ==
    IF s # <<>> /\ IsWhiteSpace(Head(s)) THEN trimStart(Tail(s)) ELSE s

RECURSIVE trimEnd(_)
trimEnd(s) ==
    IF s # <<>> /\ IsWhiteSpace(s[Len(s)])
    THEN trimEnd(SubSeq(s, 1, Len(s) - 1))
    ELSE s

trim(s) == trimEnd(trimStart(s))

\* s.includes(p), which is what an alternation of literals tests in a regex
includes(s, p) ==
    \E n \in 0..(Len(s) - Len(p)) : SubSeq(s, n + 1, n + Len(p)) = p

\* a < b in the order of Array.prototype.sort() without comparator
RECURSIVE StrLess(_, _)
StrLess(a, b) ==
    IF b = <<>> THEN FALSE
    ELSE IF a = <<>> THEN TRUE
    ELSE IF Head(a) = Head(b) THEN StrLess(Tail(a), Tail(b))
    ELSE CharCode(Head(a)) < CharCode(Head(b))

RECURSIVE sortInsert(_, _)
sortInsert(sorted, x) ==
    IF sorted = <<>> THEN <<x>>
    ELSE IF StrLess(x, Head(sorted)) THEN <<x>> \o sorted
    ELSE <<Head(sorted)>> \o sortInsert(Tail(sorted), x)

RECURSIVE sort(_)
sort(xs) ==
    IF xs = <<>> THEN <<>>
    ELSE sortInsert(sort(SubSeq(xs, 1, Len(xs) - 1)), xs[Len(xs)])

RECURSIVE join(_, _)
join(xs, sep) ==
    IF xs = <<>> THEN <<>>
    ELSE IF Len(xs) = 1 THEN xs[1]
    ELSE xs[1] \o sep \o join(Tail(xs), sep)

RECURSIVE Digits(_)
Digits(n) ==
    IF n < 10 THEN <<CodeUnits[CharCode("0") + n]>>
    ELSE Digits(n \div 10) \o <<CodeUnits[CharCode("0") + (n % 10)]>>

\* JSON.stringify(v ?? null) of a string or null
JsonStringify(v) ==
    IF v = NULL THEN <<"n","u","l","l">> ELSE <<"\"">> \o v \o <<"\"">>

---------------------------------------------------------------------------
\* Need normalizer (src/lib/risk.ts)

\* mutant of NeedRules: the canonical token of the fire rule is "fire-rescue",
\* which the rescue rule matches
NeedRulesFireRescue == <<
    [canon |-> <<"m","e","d","i","c","a","l">>,
     pats |-> {<<"e","m","t">>, <<"m","e","d","i","c">>, <<"i","n","j","u","r">>, <<"m","e","d","i","c","a","l">>, <<"f","i","r","s","t"," ","a","i","d">>}],
    [canon |-> <<"r","e","s","c","u","e">>,
     pats |-> {<<"r","e","s","c","u","e">>, <<"t","r","a","p","p","e","d">>, <<"u","s","&","r">>, <<"u","s","a","r">>}],
    [canon |-> <<"e","v","a","c","u","a","t","i","o","n">>,
     pats |-> {<<"e","v","a","c">>, <<"s","h","e","l","t","e","r">>, <<"d","i","s","p","l","a","c","e">>}],
    [canon |-> <<"f","i","r","e","-","r","e","s","c","u","e">>,
     pats |-> {<<"f","i","r","e">>, <<"s","m","o","k","e">>, <<"g","a","s">>}],
    [canon |-> <<"u","t","i","l","i","t","y">>,
     pats |-> {<<"u","t","i","l","i","t","y">>, <<"e","l","e","c","t","r","i","c">>, <<"p","o","w","e","r">>, <<"l","i","n","e","s">>, <<"g","a","s">>,
               <<"w","a","t","e","r"," ","m","a","i","n">>}],
    [canon |-> <<"p","u","b","l","i","c","-","w","o","r","k","s">>,
     pats |-> {<<"p","u","b","l","i","c"," ","w","o","r","k","s">>, <<"d","e","b","r","i","s">>, <<"s","a","n","d","b","a","g">>, <<"p","u","m","p">>, <<"r","o","a","d">>}],
    [canon |-> <<"s","e","c","u","r","i","t","y">>,
     pats |-> {<<"s","e","c","u","r","i","t","y">>, <<"c","r","o","w","d">>, <<"p","o","l","i","c","e">>}],
    [canon |-> <<"w","a","t","e","r">>, pats |-> {<<"w","a","t","e","r">>}],
    [canon |-> <<"f","o","o","d">>, pats |-> {<<"f","o","o","d">>}] >>

NeedRules == <<
    [canon |-> <<"m","e","d","i","c","a","l">>,
     pats |-> {<<"e","m","t">>, <<"m","e","d","i","c">>, <<"i","n","j","u","r">>, <<"m","e","d","i","c","a","l">>, <<"f","i","r","s","t"," ","a","i","d">>}],
    [canon |-> <<"r","e","s","c","u","e">>,
     pats |-> {<<"r","e","s","c","u","e">>, <<"t","r","a","p","p","e","d">>, <<"u","s","&","r">>, <<"u","s","a","r">>}],
    [canon |-> <<"e","v","a","c","u","a","t","i","o","n">>,
     pats |-> {<<"e","v","a","c">>, <<"s","h","e","l","t","e","r">>, <<"d","i","s","p","l","a","c","e">>}],
    [canon |-> <<"f","i","r","e">>,
     pats |-> {<<"f","i","r","e">>, <<"s","m","o","k","e">>, <<"g","a","s">>}],
    [canon |-> <<"u","t","i","l","i","t","y">>,
     pats |-> {<<"u","t","i","l","i","t","y">>, <<"e","l","e","c","t","r","i","c">>, <<"p","o","w","e","r">>, <<"l","i","n","e","s">>, <<"g","a","s">>,
               <<"w","a","t","e","r"," ","m","a","i","n">>}],
    [canon |-> <<"p","u","b","l","i","c","-","w","o","r","k","s">>,
     pats |-> {<<"p","u","b","l","i","c"," ","w","o","r","k","s">>, <<"d","e","b","r","i","s">>, <<"s","a","n","d","b","a","g">>, <<"p","u","m","p">>, <<"r","o","a","d">>}],
    [canon |-> <<"s","e","c","u","r","i","t","y">>,
     pats |-> {<<"s","e","c","u","r","i","t","y">>, <<"c","r","o","w","d">>, <<"p","o","l","i","c","e">>}],
    [canon |-> <<"w","a","t","e","r">>, pats |-> {<<"w","a","t","e","r">>}],
    [canon |-> <<"f","o","o","d">>, pats |-> {<<"f","o","o","d">>}] >>

RuleMatches(rule, n) == \E p \in rule.pats : includes(n, p)

\* mutant of canonOf: the last rule that matches wins
canonOfLastMatch(n) ==
    IF \E r \in DOMAIN NeedRules : RuleMatches(NeedRules[r], n)
    THEN NeedRules[CHOOSE r \in DOMAIN NeedRules :
                       /\ RuleMatches(NeedRules[r], n)
                       /\ \A q \in (r + 1)..Len(NeedRules) : ~RuleMatches(NeedRules[q], n)].canon
    ELSE n

\* the if / else-if chain of lines 19-30: the first rule that matches, else n
canonOf(n) ==
    IF \E r \in DOMAIN NeedRules : RuleMatches(NeedRules[r], n)
    THEN NeedRules[CHOOSE r \in DOMAIN NeedRules :
                       /\ RuleMatches(NeedRules[r], n)
                       /\ \A q \in 1..(r - 1) : ~RuleMatches(NeedRules[q], n)].canon
    ELSE n

\* Array.from(new Set(xs)): first occurrences, in order
RECURSIVE uniq(_)
uniq(xs) ==
    IF xs = <<>> THEN <<>>
    ELSE LET init == uniq(SubSeq(xs, 1, Len(xs) - 1))
             x == xs[Len(xs)]
         IN IF \E n \in DOMAIN init : init[n] = x THEN init ELSE Append(init, x)

RECURSIVE canonList(_)
canonList(needs) ==
    IF needs = <<>> THEN <<>>
    ELSE LET n == trim(toLowerCase(Head(needs)))
         IN IF n = <<>> THEN canonList(Tail(needs))
            ELSE <<canonOf(n)>> \o canonList(Tail(needs))

normalizeNeeds(needs) == uniq(canonList(needs))

---------------------------------------------------------------------------
\* Merge helpers (ensemble/route.ts)

norm(s) == toLowerCase(trim(IF s = NULL THEN <<>> ELSE s))

\* The timestamp strings of the model and what new Date(iso) makes of them.
T1000 == <<"2024-03-05T10:00:00Z">>
T1000b == <<"2024-03-05T10:00:30Z">>
T1001 == <<"2024-03-05T10:01:00Z">>
TSoon == <<"soon">>

NewDate(iso) ==
    CASE iso = T1000 ->
           [valid |-> TRUE, year |-> 2024, month |-> 2, date |-> 5, hours |-> 10, minutes |-> 0]
      [] iso = T1000b ->
           [valid |-> TRUE, year |-> 2024, month |-> 2, date |-> 5, hours |-> 10, minutes |-> 0]
      [] iso = T1001 ->
           [valid |-> TRUE, year |-> 2024, month |-> 2, date |-> 5, hours |-> 10, minutes |-> 1]
      [] OTHER ->
           [valid |-> FALSE, year |-> 0, month |-> 0, date |-> 0, hours |-> 0, minutes |-> 0]

minuteBucket(iso) ==
    IF iso = NULL \/ iso = <<>> THEN <<>>
    ELSE LET d == NewDate(iso)
         IN IF ~d.valid THEN <<>>
            ELSE Digits(d.year) \o <<"-">> \o Digits(d.month) \o <<"-">> \o Digits(d.date)
                 \o <<" ">> \o Digits(d.hours) \o <<":">> \o Digits(d.minutes)

\* mutant of makeKey: the explicit dedupe_key is not preferred
makeKeyDerivedOnly(r) ==
    LET loc == norm(r.location_text)
        time == minuteBucket(r.time_iso)
        sev == IF r.severity = NULL THEN <<>> ELSE r.severity
        needs == join(sort([n \in DOMAIN r.needs |-> trim(toLowerCase(r.needs[n]))]), <<",">>)
    IN <<"k",":">> \o loc \o <<"|">> \o time \o <<"|">> \o sev \o <<"|">> \o needs

makeKey(r) ==
    LET loc == norm(r.location_text)
        time == minuteBucket(r.time_iso)
        sev == IF r.severity = NULL THEN <<>> ELSE r.severity
        needs == join(sort([n \in DOMAIN r.needs |-> trim(toLowerCase(r.needs[n]))]), <<",">>)
    IN IF r.dedupe_key # NULL /\ r.dedupe_key # <<>>
       THEN <<"d",":">> \o norm(r.dedupe_key)
       ELSE <<"k",":">> \o loc \o <<"|">> \o time \o <<"|">> \o sev \o <<"|">> \o needs

EmptyMap == [x \in {} |-> 0]

\* mutant of majorityLoop: the count is never stored back (no m.set)
RECURSIVE majorityLoopNoSet(_, _, _, _)
majorityLoopNoSet(arr, n, m, best) ==
    IF n > Len(arr) THEN best
    ELSE LET v == arr[n]
             key == JsonStringify(v)
             c == (IF key \in DOMAIN m THEN m[key] ELSE 0) + 1
         IN majorityLoopNoSet(arr, n + 1, m,
                              IF c > best.count THEN [value |-> v, count |-> c] ELSE best)

RECURSIVE majorityLoop(_, _, _, _)
majorityLoop(arr, n, m, best) ==
    IF n > Len(arr) THEN best
    ELSE LET v == arr[n]
             key == JsonStringify(v)
             c == (IF key \in DOMAIN m THEN m[key] ELSE 0) + 1
             m2 == [x \in DOMAIN m \cup {key} |-> IF x = key THEN c ELSE m[x]]
         IN majorityLoop(arr, n + 1, m2,
                         IF c > best.count THEN [value |-> v, count |-> c] ELSE best)

majority(arr) == majorityLoop(arr, 1, EmptyMap, [value |-> NULL, count |-> 0])

\* counts.set(key, (counts.get(key) || 0) + 1) on a Map kept in insertion order
countSet(counts, key) ==
    IF \E n \in DOMAIN counts : counts[n].need = key
    THEN [n \in DOMAIN counts |->
            IF counts[n].need = key
            THEN [need |-> key, c |-> counts[n].c + 1]
            ELSE counts[n]]
    ELSE Append(counts, [need |-> key, c |-> 1])

\* mutant of NeedKey: the token is trimmed but not lower-cased
NeedKeyTrimOnly(n) == trim(n)

NeedKey(n) == trim(toLowerCase(n))

RECURSIVE countList(_, _)
countList(counts, list) ==
    IF list = <<>> THEN counts
    ELSE LET key == NeedKey(Head(list))
         IN countList(IF key = <<>> THEN counts ELSE countSet(counts, key), Tail(list))

RECURSIVE countAll(_, _)
countAll(counts, allNeeds) ==
    IF allNeeds = <<>> THEN counts
    ELSE countAll(countList(counts, Head(allNeeds)), Tail(allNeeds))

\* Array.prototype.sort((a, b) => b[1] - a[1]), which is stable
RECURSIVE entryInsert(_, _)
entryInsert(sorted, e) ==
    IF sorted = <<>> THEN <<e>>
    ELSE IF e.c > Head(sorted).c THEN <<e>> \o sorted
    ELSE <<Head(sorted)>> \o entryInsert(Tail(sorted), e)

\* mutant of sortEntries: entries with equal counts come out last-seen first
RECURSIVE sortEntriesTiesReversed(_)
sortEntriesTiesReversed(es) ==
    IF es = <<>> THEN <<>>
    ELSE entryInsert(sortEntriesTiesReversed(Tail(es)), Head(es))

RECURSIVE sortEntries(_)
sortEntries(es) ==
    IF es = <<>> THEN <<>>
    ELSE entryInsert(sortEntries(SubSeq(es, 1, Len(es) - 1)), es[Len(es)])

\* mutant of Threshold: a strict majority, Math.floor(k / 2) + 1
ThresholdStrict(kk) == (kk \div 2) + 1

\* Math.ceil(k / 2)
Threshold(kk) == (kk + 1) \div 2

RECURSIVE SumCounts(_)
SumCounts(es) == IF es = <<>> THEN 0 ELSE Head(es).c + SumCounts(Tail(es))

Max(a, b) == IF a >= b THEN a ELSE b
Min(a, b) == IF a <= b THEN a ELSE b

Frac(n, d) == [num |-> n, den |-> d]
FracAdd(a, b) == Frac(a.num * b.den + b.num * a.den, a.den * b.den)
FracMin1(a) == IF a.num > a.den THEN Frac(1, 1) ELSE a

\* Number(x.toFixed(3)), in thousandths
toFixed3(x) == (2000 * x.num + x.den) \div (2 * x.den)

needsConsensus(allNeeds, kk) ==
    LET counts == countAll(<<>>, allNeeds)
        entries == sortEntries(counts)
        threshold == Threshold(kk)
        over == SelectSeq(entries, LAMBDA e : e.c >= threshold)
        chosen == IF over = <<>>
                  THEN SubSeq(entries, 1, IF Len(entries) < 3 THEN Len(entries) ELSE 3)
                  ELSE over
        conf == IF entries = <<>> THEN Frac(0, 1)
                ELSE FracMin1(Frac(SumCounts(chosen), kk * Max(1, Len(chosen))))
    IN [needs |-> [n \in DOMAIN chosen |-> chosen[n].need], conf |-> conf]


---------------------------------------------------------------------------
\* Model output: the values JSON.parse can return for a response text

SevLow == <<"l","o","w">>
SevModerate == <<"m","o","d","e","r","a","t","e">>
SevHigh == <<"h","i","g","h">>
SevCritical == <<"c","r","i","t","i","c","a","l">>
SevExtreme == <<"e","x","t","r","e","m","e">>

Rep(loc, time, sev, needs, dk, notes) ==
    [js |-> "object", location_text |-> loc, time_iso |-> time, severity |-> sev,
     needs |-> needs, dedupe_key |-> dk, notes |-> notes]

\* a null element of a reports array
NullRep == [js |-> "null", location_text |-> NULL, time_iso |-> NULL, severity |-> NULL,
            needs |-> <<>>, dedupe_key |-> NULL, notes |-> NULL]

RPine1 == Rep(<<"P","i","n","e">>, T1000, SevHigh, <<<<"W","a","t","e","r"," ">>>>, <<"K","1">>, NULL)
RPine2 == Rep(<<"p","i","n","e"," ">>, T1000b, SevHigh, <<<<"w","a","t","e","r">>, <<"m","e","d","i","c">>>>, <<"k","1"," ">>, <<"n">>)
RPine3 == Rep(<<"P","i","n","e">>, NULL, SevModerate, <<<<"f","o","o","d">>>>, <<"K","1">>, NULL)
ROak1 == Rep(<<"O","a","k">>, T1000, SevExtreme, <<>>, NULL, NULL)
ROak2 == Rep(<<"o","a","k"," ">>, T1000b, SevExtreme, <<>>, <<>>, NULL)
ROak3 == Rep(<<"O","a","k">>, TSoon, NULL, <<<<"m","e","d","i","c">>, <<"G","a","s">>, <<"f","o","o","d">>, <<"r","o","a","d">>>>, NULL, <<"n">>)

\* A JSON value, as JSON.parse returns it: t is "null", "boolean", "number",
\* "string", "array" or "object"; str the text of a boolean, number or string;
\* elems the elements of an array or the member values of an object; keys the
\* member names of an object, in source order.
JV(t, str, keys, elems) == [t |-> t, str |-> str, keys |-> keys, elems |-> elems]

JUndefined == JV("undefined", <<>>, <<>>, <<>>)
JNull == JV("null", <<>>, <<>>, <<>>)
JTrue == JV("boolean", <<"t","r","u","e">>, <<>>, <<>>)
JFalse == JV("boolean", <<"f","a","l","s","e">>, <<>>, <<>>)
JNum(str) == JV("number", str, <<>>, <<>>)
JStr(str) == JV("string", str, <<>>, <<>>)
JArr(elems) == JV("array", <<>>, <<>>, elems)
JObj(keys, elems) == JV("object", <<>>, keys, elems)

\* val[key]: the member of that name (the last one when the text repeats it)
GetProp(val, key) ==
    IF val.t = "object" /\ \E n \in DOMAIN val.keys : val.keys[n] = key
    THEN val.elems[CHOOSE n \in DOMAIN val.keys :
                       /\ val.keys[n] = key
                       /\ \A m \in (n + 1)..Len(val.keys) : val.keys[m] # key]
    ELSE JUndefined

\* ToBoolean(val)
Truthy(val) ==
    CASE val.t \in {"null", "undefined"} -> FALSE
      [] val.t = "boolean" -> val = JTrue
      [] val.t = "number" -> \E n \in DOMAIN val.str : val.str[n] \notin {"0", "-", "."}
      [] val.t = "string" -> val.str # <<>>
      [] OTHER -> TRUE

\* rep.location_text ?? null, and the like: the strings of the model's reports
StrProp(e, key) == LET v == GetProp(e, key) IN IF v.t = "string" THEN v.str ELSE NULL

\* the fields that makeKey and lines 266-287 read from an element of reports
candidate(e) ==
    IF e.t = "null" THEN NullRep
    ELSE Rep(StrProp(e, <<"l","o","c","a","t","i","o","n","_","t","e","x","t">>), StrProp(e, <<"t","i","m","e","_","i","s","o">>),
             StrProp(e, <<"s","e","v","e","r","i","t","y">>),
             LET v == GetProp(e, <<"n","e","e","d","s">>)
             IN IF v.t = "array" THEN [n \in DOMAIN v.elems |-> v.elems[n].str] ELSE <<>>,
             StrProp(e, <<"d","e","d","u","p","e","_","k","e","y">>), StrProp(e, <<"n","o","t","e","s">>))

ReportKeys ==
    <<<<"l","o","c","a","t","i","o","n","_","t","e","x","t">>, <<"t","i","m","e","_","i","s","o">>, <<"s","e","v","e","r","i","t","y">>, <<"n","e","e","d","s">>, <<"d","e","d","u","p","e","_","k","e","y">>, <<"n","o","t","e","s">>>>

FieldVal(x) == IF x = NULL THEN JNull ELSE JStr(x)

\* the JSON object of a report, and null for a null element
ObjectVal(r) ==
    IF r.js = "null" THEN JNull
    ELSE JObj(ReportKeys,
              <<FieldVal(r.location_text), FieldVal(r.time_iso), FieldVal(r.severity),
                JArr([n \in DOMAIN r.needs |-> JStr(r.needs[n])]),
                FieldVal(r.dedupe_key), FieldVal(r.notes)>>)

ArrayVal(items) == JArr([n \in DOMAIN items |-> ObjectVal(items[n])])
ReportsVal(items) == JObj(<<<<"r","e","p","o","r","t","s">>>>, <<ArrayVal(items)>>)
ScalarVal == JNum(<<"7">>)

EmptyText == [kind |-> "empty", val |-> ScalarVal]
BadText == [kind |-> "bad", val |-> ScalarVal]
JsonText(v) == [kind |-> "json", val |-> v]

\* The response texts a generation call may return.
Contents ==
    { EmptyText, BadText,
      JsonText(ReportsVal(<<RPine1>>)),
      JsonText(ReportsVal(<<RPine2>>)),
      JsonText(ArrayVal(<<RPine3>>)),
      JsonText(ReportsVal(<<RPine1, RPine1>>)),
      JsonText(ObjectVal(ROak1)),
      JsonText(ArrayVal(<<ROak2, ROak3>>)),
      JsonText(ArrayVal(<<NullRep>>)),
      JsonText(ScalarVal) }

\* mutant of coerceToExtractResponse: the third test is `if (val)` alone
coerceAnyTruthy(val) ==
    IF val.t = "array" THEN val.elems
    ELSE IF Truthy(val) /\ GetProp(val, <<"r","e","p","o","r","t","s">>).t = "array"
         THEN GetProp(val, <<"r","e","p","o","r","t","s">>).elems
    ELSE IF Truthy(val) THEN <<val>>
    ELSE <<>>

coerceToExtractResponse(val) ==
    IF val.t = "array" THEN val.elems
    ELSE IF Truthy(val) /\ GetProp(val, <<"r","e","p","o","r","t","s">>).t = "array"
         THEN GetProp(val, <<"r","e","p","o","r","t","s">>).elems
    ELSE IF Truthy(val) /\ val.t = "object" THEN <<val>>
    ELSE <<>>

\* parseModelJson on a non-empty text, given as the value that JSON.parse
\* makes of its first parseable candidate: it throws or returns the coerced value
parsedContent(content) ==
    IF content.kind = "json"
    THEN [threw |-> FALSE, reports |-> coerceToExtractResponse(content.val)]
    ELSE [threw |-> TRUE, reports |-> <<>>]

\* lines 243-249: runs after the response text of one attempt
pushRun(rs, content) ==
    IF content.kind = "empty" THEN rs
    ELSE LET p == parsedContent(content)
         IN IF p.threw THEN rs
            ELSE Append(rs, [n \in DOMAIN p.reports |-> candidate(p.reports[n])])

countOutput(n, content) == IF content.kind = "empty" THEN n ELSE n + 1


---------------------------------------------------------------------------
\* Salvager at the level of characters (ensemble/route.ts 67-131)

\* JSON.parse: a value and the position after it, or a failure
PFail == [ok |-> FALSE, val |-> JNull, pos |-> 0]
POk(v, p) == [ok |-> TRUE, val |-> v, pos |-> p]

RECURSIVE skipWs(_, _)
skipWs(s, p) == IF p <= Len(s) /\ IsWhiteSpace(s[p]) THEN skipWs(s, p + 1) ELSE p

Literal(s, p, lit) == p + Len(lit) - 1 <= Len(s) /\ SubSeq(s, p, p + Len(lit) - 1) = lit

\* the character that a backslash and c stand for (\u escapes are not in the model)
Unescape(c) ==
    CASE c = "n" -> "\n"
      [] c = "t" -> "\t"
      [] c = "r" -> "\r"
      [] OTHER -> c

\* the rest of a string literal whose opening quote is before p
RECURSIVE pString(_, _, _)
pString(s, p, acc) ==
    IF p > Len(s) THEN PFail
    ELSE IF s[p] = "\"" THEN POk(JStr(acc), p + 1)
    ELSE IF s[p] \in {"\n", "\t", "\r"} THEN PFail
    ELSE IF s[p] = "\\"
         THEN IF p + 1 <= Len(s) /\ s[p + 1] \in {"\"", "\\", "/", "n", "t", "r"}
              THEN pString(s, p + 2, Append(acc, Unescape(s[p + 1])))
              ELSE PFail
    ELSE pString(s, p + 1, Append(acc, s[p]))

IsDigit(c) == c \in {"0", "1", "2", "3", "4", "5", "6", "7", "8", "9"}

RECURSIVE skipDigits(_, _)
skipDigits(s, p) == IF p <= Len(s) /\ IsDigit(s[p]) THEN skipDigits(s, p + 1) ELSE p

\* -? (0 | [1-9][0-9]*) (. [0-9]+)?   (exponents are not in the model)
pNumber(s, p) ==
    LET d == IF s[p] = "-" THEN p + 1 ELSE p
        e == IF d <= Len(s) /\ s[d] = "0" THEN d + 1 ELSE skipDigits(s, d)
        f == IF e <= Len(s) /\ s[e] = "." THEN skipDigits(s, e + 1) ELSE e
    IN IF e = d \/ (f # e /\ f = e + 1) THEN PFail
       ELSE POk(JNum(SubSeq(s, p, f - 1)), f)

RECURSIVE pValue(_, _)
RECURSIVE pElements(_, _, _)
RECURSIVE pMembers(_, _, _, _)

pValue(s, p0) ==
    LET p == skipWs(s, p0)
    IN IF p > Len(s) THEN PFail
       ELSE IF s[p] = "{"
            THEN LET q == skipWs(s, p + 1)
                 IN IF q <= Len(s) /\ s[q] = "}" THEN POk(JObj(<<>>, <<>>), q + 1)
                    ELSE pMembers(s, q, <<>>, <<>>)
       ELSE IF s[p] = "["
            THEN LET q == skipWs(s, p + 1)
                 IN IF q <= Len(s) /\ s[q] = "]" THEN POk(JArr(<<>>), q + 1)
                    ELSE pElements(s, q, <<>>)
       ELSE IF s[p] = "\"" THEN pString(s, p + 1, <<>>)
       ELSE IF Literal(s, p, <<"n","u","l","l">>) THEN POk(JNull, p + 4)
       ELSE IF Literal(s, p, <<"t","r","u","e">>) THEN POk(JTrue, p + 4)
       ELSE IF Literal(s, p, <<"f","a","l","s","e">>) THEN POk(JFalse, p + 5)
       ELSE IF s[p] = "-" \/ IsDigit(s[p]) THEN pNumber(s, p)
       ELSE PFail

pElements(s, p, acc) ==
    LET v == pValue(s, p)
        q == skipWs(s, v.pos)
    IN IF ~v.ok \/ q > Len(s) THEN PFail
       ELSE IF s[q] = "," THEN pElements(s, q + 1, Append(acc, v.val))
       ELSE IF s[q] = "]" THEN POk(JArr(Append(acc, v.val)), q + 1)
       ELSE PFail

pMembers(s, p0, keys, vals) ==
    LET p == skipWs(s, p0)
    IN IF p > Len(s) \/ s[p] # "\"" THEN PFail
       ELSE LET key == pString(s, p + 1, <<>>)
                c == skipWs(s, key.pos)
            IN IF ~key.ok \/ c > Len(s) \/ s[c] # ":" THEN PFail
               ELSE LET v == pValue(s, c + 1)
                        q == skipWs(s, v.pos)
                    IN IF ~v.ok \/ q > Len(s) THEN PFail
                       ELSE IF s[q] = ","
                            THEN pMembers(s, q + 1, Append(keys, key.val.str), Append(vals, v.val))
                       ELSE IF s[q] = "}"
                            THEN POk(JObj(Append(keys, key.val.str), Append(vals, v.val)), q + 1)
                       ELSE PFail

\* JSON.parse(s): ok is FALSE when it throws
JsonParse(s) ==
    LET v == pValue(s, 1)
    IN IF v.ok /\ skipWs(s, v.pos) > Len(s) THEN [ok |-> TRUE, val |-> v.val]
       ELSE [ok |-> FALSE, val |-> JNull]

\* s.indexOf(p, from) and s.slice(a, b), positions counted from 0
indexOf(s, p, from) ==
    LET hits == {n \in Max(from, 0)..(Len(s) - Len(p)) : SubSeq(s, n + 1, n + Len(p)) = p}
    IN IF hits = {} THEN -1 ELSE CHOOSE n \in hits : \A m \in hits : n <= m

slice(s, a, b) == SubSeq(s, a + 1, b)

\* the fence of a code block: three backticks (a TLA+ string cannot hold a
\* backtick, so the model writes the character as ')
Fence == <<"'","'","'">>

\* the white space that ends at position q
RECURSIVE wsBack(_, _, _)
wsBack(s, q, low) == IF q > low /\ IsWhiteSpace(s[q]) THEN wsBack(s, q - 1, low) ELSE q

\* s.replace(/FENCE(?:json)?\s*([\s\S]*?)\s*FENCE/gi, "$1"): every fenced region,
\* from the left, is replaced by its content without the white space around it
RECURSIVE stripCodeFences(_)
stripCodeFences(s) ==
    LET a == indexOf(s, Fence, 0)
        j == IF toLowerCase(slice(s, a + 3, Min(a + 7, Len(s)))) = <<"j","s","o","n">> THEN a + 7 ELSE a + 3
        p == skipWs(s, j + 1) - 1
        q == indexOf(s, Fence, p)
        e == wsBack(s, q, p)
    IN IF a = -1 \/ q = -1 THEN s
       ELSE slice(s, 0, a) \o slice(s, p, e) \o stripCodeFences(slice(s, q + 3, Len(s)))

betweenTags(s, open, close) ==
    LET i0 == indexOf(s, open, 0)
        j0 == indexOf(s, close, i0 + Len(open))
    IN IF i0 # -1 /\ j0 # -1 THEN slice(s, i0 + Len(open), j0) ELSE NULL

\* the inner loop of extractBalancedJson from position n (counted from 0)
RECURSIVE scan(_, _, _, _, _, _, _, _)
scan(s, startCh, endCh, start, n, depth, inStr, esc) ==
    IF n >= Len(s) THEN NULL
    ELSE LET ch == s[n + 1]
         IN IF esc THEN scan(s, startCh, endCh, start, n + 1, depth, inStr, FALSE)
            ELSE IF ch = "\\" THEN scan(s, startCh, endCh, start, n + 1, depth, inStr, TRUE)
            ELSE LET inStr2 == IF ch = "\"" /\ ~(n >= 1 /\ s[n] = "\\") THEN ~inStr ELSE inStr
                 IN IF inStr2 THEN scan(s, startCh, endCh, start, n + 1, depth, inStr2, FALSE)
                    ELSE IF ch = startCh
                         THEN scan(s, startCh, endCh, start, n + 1, depth + 1, inStr2, FALSE)
                    ELSE IF ch = endCh
                         THEN IF depth - 1 = 0 THEN slice(s, start, n + 1)
                              ELSE scan(s, startCh, endCh, start, n + 1, depth - 1, inStr2, FALSE)
                    ELSE scan(s, startCh, endCh, start, n + 1, depth, inStr2, FALSE)

\* one round of the outer loop: the span that starts at the first startCh
spanFrom(s, startCh, endCh) ==
    LET start == indexOf(s, <<startCh>>, 0)
    IN IF start = -1 THEN NULL ELSE scan(s, startCh, endCh, start, start, 0, FALSE, FALSE)

extractBalancedJson(s) ==
    IF spanFrom(s, "{", "}") # NULL THEN spanFrom(s, "{", "}") ELSE spanFrom(s, "[", "]")

\* mutant of candidates: the balanced span is pushed before the other two
candidatesBalancedFirst(raw) ==
    LET noFences == stripCodeFences(raw)
        tag == betweenTags(raw, <<"<","j","s","o","n",">">>, <<"<","/","j","s","o","n",">">>)
        balanced == extractBalancedJson(raw)
    IN uniq(SelectSeq(<<raw>>
                      \o (IF balanced # NULL /\ balanced # <<>> THEN <<balanced>> ELSE <<>>)
                      \o (IF noFences # raw THEN <<noFences>> ELSE <<>>)
                      \o (IF tag # NULL /\ tag # <<>> THEN <<tag>> ELSE <<>>),
                      LAMBDA c : c # <<>>))

\* lines 113-121: const uniq, the candidates in the order in which they are tried
candidates(raw) ==
    LET noFences == stripCodeFences(raw)
        tag == betweenTags(raw, <<"<","j","s","o","n",">">>, <<"<","/","j","s","o","n",">">>)
        balanced == extractBalancedJson(raw)
    IN uniq(SelectSeq(<<raw>>
                      \o (IF noFences # raw THEN <<noFences>> ELSE <<>>)
                      \o (IF tag # NULL /\ tag # <<>> THEN <<tag>> ELSE <<>>)
                      \o (IF balanced # NULL /\ balanced # <<>> THEN <<balanced>> ELSE <<>>),
                      LAMBDA c : c # <<>>))

\* lines 122-130: the coercion of the first candidate that parses, else the throw
RECURSIVE tryAll(_)
tryAll(cs) ==
    IF cs = <<>> THEN [threw |-> TRUE, reports |-> <<>>]
    ELSE IF JsonParse(Head(cs)).ok
         THEN [threw |-> FALSE, reports |-> coerceToExtractResponse(JsonParse(Head(cs)).val)]
    ELSE tryAll(Tail(cs))

parseModelJson(raw) == tryAll(candidates(raw))

---------------------------------------------------------------------------
\* Merge (lines 252-333)

\* mutant of FreshBuckets: the Map outlives the call (module-level state)
StaleBuckets == buckets

\* const buckets = new Map()
FreshBuckets == <<>>

Severities == {SevLow, SevModerate, SevHigh, SevCritical}

\* mutant of bucketPush: buckets.set(key, ...) without the has() test, so a
\* key seen again starts its bucket afresh
bucketPushReset(bs, rep) ==
    LET key == makeKey(rep)
        fresh == [key |-> key,
                  locs |-> <<rep.location_text>>,
                  times |-> <<rep.time_iso>>,
                  sevs |-> <<IF rep.severity \in Severities THEN rep.severity ELSE NULL>>,
                  needs |-> <<rep.needs>>,
                  notes |-> <<rep.notes>>,
                  dedupe_keys |-> <<rep.dedupe_key>>]
    IN IF \E n \in DOMAIN bs : bs[n].key = key
       THEN [n \in DOMAIN bs |-> IF bs[n].key = key THEN fresh ELSE bs[n]]
       ELSE Append(bs, fresh)

\* lines 267-287
bucketPush(bs, rep) ==
    LET key == makeKey(rep)
        bs1 == IF \E n \in DOMAIN bs : bs[n].key = key THEN bs
               ELSE Append(bs, [key |-> key, locs |-> <<>>, times |-> <<>>, sevs |-> <<>>,
                                needs |-> <<>>, notes |-> <<>>, dedupe_keys |-> <<>>])
        idx == CHOOSE n \in DOMAIN bs1 : bs1[n].key = key
        b == bs1[idx]
    IN [bs1 EXCEPT ![idx] =
            [key |-> key,
             locs |-> Append(b.locs, rep.location_text),
             times |-> Append(b.times, rep.time_iso),
             sevs |-> Append(b.sevs, IF rep.severity \in Severities THEN rep.severity ELSE NULL),
             needs |-> Append(b.needs, rep.needs),
             notes |-> Append(b.notes, rep.notes),
             dedupe_keys |-> Append(b.dedupe_keys, rep.dedupe_key)]]

RECURSIVE Flatten(_)
Flatten(rs) == IF rs = <<>> THEN <<>> ELSE Head(rs) \o Flatten(Tail(rs))

RECURSIVE pushAll(_, _)
pushAll(bs, reps) ==
    IF reps = <<>> THEN bs ELSE pushAll(bucketPush(bs, Head(reps)), Tail(reps))

\* makeKey(rep) reads rep.location_text, which throws a TypeError when rep is null
MergeThrows(rs) == \E n \in DOMAIN Flatten(rs) : Flatten(rs)[n].js = "null"

fillBuckets(bs, rs) == pushAll(bs, Flatten(rs))

\* mutant of kOf: the requested samples as the denominator
kOfSamples(rs) == samples

\* runs.length || 1
kOf(rs) == IF Len(rs) = 0 THEN 1 ELSE Len(rs)

UuidSeeds == {"u1", "u2"}

\* lines 293-332 for one bucket
mergeBucket(b, kk, id) ==
    LET locMaj == majority(b.locs)
        timeMaj == majority(b.times)
        sevMaj == majority(b.sevs)
        needsMaj == needsConsensus(b.needs, kk)
        notesMaj == majority(b.notes)
        dedupMaj == majority(b.dedupe_keys)
        confLoc == Frac(locMaj.count, kk)
        confTime == Frac(timeMaj.count, kk)
        confSev == Frac(sevMaj.count, kk)
        confNeeds == needsMaj.conf
        sum == FracAdd(FracAdd(confLoc, confTime), FracAdd(confSev, confNeeds))
        overall == Frac(sum.num, 4 * sum.den)
    IN [id |-> id,
        location_text |-> locMaj.value,
        time_iso |-> timeMaj.value,
        severity |-> sevMaj.value,
        needs |-> needsMaj.needs,
        notes |-> notesMaj.value,
        dedupe_key |-> dedupMaj.value,
        confidence_overall |-> toFixed3(overall),
        confields |-> [location_text |-> toFixed3(confLoc),
                       time_iso |-> toFixed3(confTime),
                       severity |-> toFixed3(confSev),
                       needs |-> toFixed3(confNeeds)]]

mergeAll(bs, kk, seed) == [j \in DOMAIN bs |-> mergeBucket(bs[j], kk, <<seed, j>>)]

---------------------------------------------------------------------------
\* The handler POST (lines 201-336)

MinSamples == 2
MaxSamples == 6
DefaultSamples == 3

NoSamples == [given |-> FALSE, n |-> 0]
SampleInputs == {NoSamples} \cup {[given |-> TRUE, n |-> n] : n \in 0..MaxSamplesIn}

Texts == {NULL, <<>>, <<" "," ">>, <<" ","f","i","r","e"," ">>}

\* req.json().catch(() => null)
NoBody == [valid |-> FALSE, text |-> NULL, samples |-> NoSamples]
Bodies == {NoBody} \cup {[valid |-> TRUE, text |-> t, samples |-> s] :
                           t \in Texts, s \in SampleInputs}

\* mutant of textOf: the text is not trimmed
textOfUntrimmed(b) == IF ~b.valid \/ b.text = NULL THEN NULL ELSE b.text

\* body?.text?.trim()
textOf(b) == IF ~b.valid \/ b.text = NULL THEN NULL ELSE trim(b.text)

\* Math.max(2, Math.min(6, body?.samples ?? 3))
samplesOf(b) ==
    Max(MinSamples,
        Min(MaxSamples, IF b.valid /\ b.samples.given THEN b.samples.n ELSE DefaultSamples))

\* The response: error is "" when the body is { reports }, else the error.
NoResponse == [status |-> 0, error |-> "", reports |-> <<>>]
ErrorResponse(status, error) == [status |-> status, error |-> error, reports |-> <<>>]
ReportsResponse(merged) == [status |-> 200, error |-> "", reports |-> merged]

\* A rejection that POST does not catch: the framework answers 500.
Unhandled(error) == ErrorResponse(500, error)

NcIdle ==
    /\ ncIn = <<>>
    /\ ncK = 1
    /\ ncOut = [needs |-> <<>>, conf |-> Frac(0, 1)]
    /\ ncPc = "idle"

DetIdle ==
    /\ detRuns = <<>>
    /\ detOut = <<>>
    /\ detPc = 0

RkIdle ==
    /\ rkIn = <<>>
    /\ rkOut = <<>>
    /\ rkPc = "idle"

NnIdle ==
    /\ nnIn = <<>>
    /\ nnOut = <<>>
    /\ nnPc = "idle"

SfIdle ==
    /\ sfIn = <<>>
    /\ sfOut = <<>>
    /\ sfPc = "idle"

MjIdle ==
    /\ mjIn = <<>>
    /\ mjOut = <<>>
    /\ mjPc = "idle"

SvIdle ==
    /\ svIn = <<>>
    /\ svOut = <<>>
    /\ svPc = "idle"

FnIdle == RkIdle /\ NnIdle /\ SfIdle /\ MjIdle /\ SvIdle

KyIdle ==
    /\ kyIn = <<>>
    /\ kyOut = <<>>
    /\ kyPc = "idle"

SlIdle ==
    /\ slItems = <<>>
    /\ slStatus = "idle"
    /\ slError = "null"
    /\ slPending = <<0, 0>>
    /\ slAnnotating = <<>>
    /\ slAction = <<>>

ExtIdle == KyIdle /\ SlIdle

HandlerIdle ==
    /\ pc = "idle"
    /\ body = NoBody
    /\ samples = 0
    /\ i = 0
    /\ ping = "none"
    /\ tagsCalls = 0
    /\ genCalls = 0
    /\ failures = 0
    /\ outputs = 0
    /\ runs = <<>>
    /\ k = 0
    /\ response = NoResponse

Init ==
    /\ pc = "start"
    /\ body \in Bodies
    /\ samples = 0
    /\ i = 0
    /\ ping = "none"
    /\ tagsCalls = 0
    /\ genCalls = 0
    /\ failures = 0
    /\ outputs = 0
    /\ runs = <<>>
    /\ buckets = <<>>
    /\ k = 0
    /\ response = NoResponse
    /\ NcIdle
    /\ DetIdle
    /\ FnIdle
    /\ ExtIdle

\* lines 202-212: validate the request, then issue the liveness probe
Start ==
    /\ pc = "start"
    /\ samples' = samplesOf(body)
    /\ IF textOf(body) = NULL \/ textOf(body) = <<>>
       THEN /\ response' = ErrorResponse(400, "Missing text")
            /\ pc' = "done"
            /\ UNCHANGED <<ping, tagsCalls>>
       ELSE /\ tagsCalls' = tagsCalls + 1
            /\ ping' = "pending"
            /\ pc' = "probing"
            /\ UNCHANGED response
    /\ UNCHANGED <<body, i, genCalls, failures, outputs, runs, buckets, k, ncVars, detVars, fnVars, extVars>>

\* mutant of ProbeFails: the failed probe does not return, the loop starts
ProbeFailsFallsThrough ==
    /\ pc = "probing"
    /\ ping' = "failed"
    /\ runs' = <<>>
    /\ i' = 0
    /\ genCalls' = genCalls + 1
    /\ pc' = "generating"
    /\ UNCHANGED <<body, samples, tagsCalls, failures, outputs, buckets, k, response,
                   ncVars, detVars, fnVars, extVars>>

\* lines 212-218: the probe rejects or answers non-2xx
ProbeFails ==
    /\ pc = "probing"
    /\ ping' = "failed"
    /\ response' = ErrorResponse(503, "Cannot reach Ollama")
    /\ pc' = "done"
    /\ UNCHANGED <<body, samples, i, tagsCalls, genCalls, failures, outputs, runs, buckets, k,
                   ncVars, detVars, fnVars, extVars>>

\* lines 212-234: the probe answers 2xx; the first generation call is issued
ProbeSucceeds ==
    /\ pc = "probing"
    /\ ping' = "ok"
    /\ runs' = <<>>
    /\ i' = 0
    /\ genCalls' = genCalls + 1
    /\ pc' = "generating"
    /\ UNCHANGED <<body, samples, tagsCalls, failures, outputs, buckets, k, response,
                   ncVars, detVars, fnVars, extVars>>

\* lines 225-241: the generation call answers non-2xx and POST returns a 503,
\* or fetch rejects (network error) and nothing catches the rejection
GenFails ==
    /\ pc = "generating"
    /\ \/ response' = ErrorResponse(503, "Ollama error")
       \/ response' = Unhandled("fetch failed")
    /\ failures' = failures + 1
    /\ pc' = "done"
    /\ UNCHANGED <<body, samples, i, ping, tagsCalls, genCalls, outputs, runs, buckets, k,
                   ncVars, detVars, fnVars, extVars>>

\* lines 242-250, 223-234: an attempt returns and the next call is issued
GenNext ==
    /\ pc = "generating"
    /\ i + 1 < samples
    /\ \E content \in Contents :
          /\ runs' = pushRun(runs, content)
          /\ outputs' = countOutput(outputs, content)
    /\ i' = i + 1
    /\ genCalls' = genCalls + 1
    /\ UNCHANGED <<pc, body, samples, ping, tagsCalls, failures, buckets, k, response,
                   ncVars, detVars, fnVars, extVars>>

\* mutant of GenLast: the merge does not wait for the remaining attempts
GenLastEarly ==
    /\ pc = "generating"
    /\ \E content \in Contents, seed \in UuidSeeds :
          LET rs == pushRun(runs, content)
              bs == fillBuckets(FreshBuckets, rs)
          IN /\ runs' = rs
             /\ outputs' = countOutput(outputs, content)
             /\ IF MergeThrows(rs)
                THEN /\ response' = Unhandled("TypeError")
                     /\ UNCHANGED <<buckets, k>>
                ELSE /\ buckets' = bs
                     /\ k' = kOf(rs)
                     /\ response' = ReportsResponse(mergeAll(bs, kOf(rs), seed))
    /\ i' = i + 1
    /\ pc' = "done"
    /\ UNCHANGED <<body, samples, ping, tagsCalls, genCalls, failures, ncVars, detVars, fnVars, extVars>>

\* lines 242-335: the last attempt returns; merge and answer
GenLast ==
    /\ pc = "generating"
    /\ i + 1 >= samples
    /\ \E content \in Contents, seed \in UuidSeeds :
          LET rs == pushRun(runs, content)
              bs == fillBuckets(FreshBuckets, rs)
          IN /\ runs' = rs
             /\ outputs' = countOutput(outputs, content)
             /\ IF MergeThrows(rs)
                THEN /\ response' = Unhandled("TypeError")
                     /\ UNCHANGED <<buckets, k>>
                ELSE /\ buckets' = bs
                     /\ k' = kOf(rs)
                     /\ response' = ReportsResponse(mergeAll(bs, kOf(rs), seed))
    /\ i' = i + 1
    /\ pc' = "done"
    /\ UNCHANGED <<body, samples, ping, tagsCalls, genCalls, failures, ncVars, detVars, fnVars, extVars>>

Next == Start \/ ProbeFails \/ ProbeSucceeds \/ GenFails \/ GenNext \/ GenLast

Spec == Init /\ [][Next]_vars


---------------------------------------------------------------------------
\* Properties of the handler (checked under Spec)

Answered == pc = "done" /\ response.status = 200

Merged == response.reports

InUnit(conf) == 0 <= conf /\ conf <= 1000

\* C1: every merged record of the response has confidence_overall and each
\* confields entry in [0,1] (here 0..1000 thousandths), also when one run
\* contributes two or more reports to the same bucket.
C1_ConfidencesInUnitInterval ==
    Answered =>
        \A j \in DOMAIN Merged :
            /\ InUnit(Merged[j].confidence_overall)
            /\ InUnit(Merged[j].confields.location_text)
            /\ InUnit(Merged[j].confields.time_iso)
            /\ InUnit(Merged[j].confields.severity)
            /\ InUnit(Merged[j].confields.needs)

\* C2 (as claimed): the denominator k used for the buckets equals the number
\* of attempts that returned non-empty response text, salvageable or not.
C2_KIsOutputCount == (Answered /\ Merged # <<>>) => k = outputs

Abs(x) == IF x < 0 THEN -x ELSE x

\* conf (thousandths) is count / kk rounded to 3 decimals
IsRounded(conf, count, kk) == 2 * Abs(1000 * count - conf * kk) <= kk

\* C2 (amended): the denominator k used for every bucket equals the number of
\* attempts whose text was salvaged as JSON, runs.length: every field
\* confidence is the winning count divided by that number, so an attempt whose
\* text could not be salvaged lowers k just as an attempt without output does.
C2_KIsSalvagedCount ==
    (Answered /\ Merged # <<>>) =>
        /\ k = Len(runs)
        /\ \A j \in DOMAIN Merged :
              /\ IsRounded(Merged[j].confields.location_text,
                           majority(buckets[j].locs).count, Len(runs))
              /\ IsRounded(Merged[j].confields.time_iso,
                           majority(buckets[j].times).count, Len(runs))
              /\ IsRounded(Merged[j].confields.severity,
                           majority(buckets[j].sevs).count, Len(runs))

\* an unsalvageable text came back, and the salvaged runs gave a record
C2_Witness == Answered /\ Merged # <<>> /\ outputs > Len(runs)

\* C3: a generation call that fails is dropped without aborting the ensemble:
\* all the attempts are still issued and the answer is the consensus of the
\* attempts that succeeded, not an error response.
C3_FailedCallIsDropped ==
    (pc = "done" /\ failures > 0) => (genCalls = samples /\ response.status = 200)

\* C4: a failed probe is answered 503 with no generation call issued, and a
\* generation call is only ever issued after a probe that succeeded.
C4_ProbeBeforeGenerate ==
    /\ ping = "failed" =>
          (pc = "done" /\ response.status = 503 /\ response.error # "" /\ genCalls = 0)
    /\ genCalls > 0 => (ping = "ok" /\ tagsCalls = 1)
    /\ pc = "generating" => ping = "ok"

C4_Witness == ping = "failed" /\ response.status = 503 /\ genCalls = 0

\* the request has no usable text: no body, no text, or only white space
BlankRequest ==
    \/ ~body.valid
    \/ body.text = NULL
    \/ \A n \in DOMAIN body.text : body.text[n] = " "

\* C5: a request whose text is missing, empty or whitespace-only is answered
\* 400 before the probe: no outbound call is ever issued for it.
C5_BlankTextRejected ==
    BlankRequest =>
        /\ tagsCalls = 0
        /\ genCalls = 0
        /\ pc \in {"start", "done"}
        /\ pc = "done" => (response.status = 400 /\ response.error = "Missing text")

C5_Witness ==
    /\ body.valid
    /\ body.text # NULL
    /\ body.text # <<>>
    /\ BlankRequest
    /\ response.status = 400

\* C6: when the probe succeeded and every generation call returned HTTP OK,
\* the answer is a reports array and never an error, and the array is empty
\* when no attempt was salvageable.
C6_AlwaysReportsWhenCallsOk ==
    (pc = "done" /\ ping = "ok" /\ failures = 0) =>
        /\ response.status = 200
        /\ response.error = ""
        /\ runs = <<>> => response.reports = <<>>

Occ(arr, v) == Cardinality({n \in DOMAIN arr : arr[n] = v})

MaxOcc(arr) == CHOOSE c \in 0..Len(arr) :
    /\ \A n \in DOMAIN arr : Occ(arr, arr[n]) <= c
    /\ arr # <<>> => \E n \in DOMAIN arr : Occ(arr, arr[n]) = c

Plurality(arr, value) ==
    /\ Occ(arr, value) = MaxOcc(arr)
    /\ majority(arr).count = MaxOcc(arr)
    /\ majority(arr).value = value

C10_NeedsNormalized ==
    Answered => \A j \in DOMAIN Merged : normalizeNeeds(Merged[j].needs) = Merged[j].needs

\* C10 (amended): the needs of every merged record of the response hold no
\* duplicate and only non-blank, lower-cased, trimmed tokens; the handler does
\* not map them to the canonical vocabulary.
C10_NeedsLowerTrimmedUnique ==
    Answered =>
        \A j \in DOMAIN Merged :
            LET needs == Merged[j].needs
            IN /\ \A a, b \in DOMAIN needs : needs[a] = needs[b] => a = b
               /\ \A a \in DOMAIN needs :
                     /\ needs[a] # <<>>
                     /\ toLowerCase(needs[a]) = needs[a]
                     /\ trim(needs[a]) = needs[a]

\* a bucket whose candidates spell a need with capitals and white space
C10_Witness ==
    /\ Answered
    /\ \E j \in DOMAIN Merged :
          /\ Merged[j].needs # <<>>
          /\ \E c \in DOMAIN buckets[j].needs : \E n \in DOMAIN buckets[j].needs[c] :
                trim(toLowerCase(buckets[j].needs[c][n])) # buckets[j].needs[c][n]


\* N: samples clamped into [2,6], 3 when samples is not given
Attempts ==
    LET given == IF body.valid /\ body.samples.given THEN body.samples.n ELSE 3
    IN IF given < 2 THEN 2 ELSE IF given > 6 THEN 6 ELSE given

\* the merge step has run: buckets filled, k set or the reports answered
MergeDone == buckets # <<>> \/ k # 0 \/ response.status = 200

SalvagedKeys == [n \in DOMAIN Flatten(runs) |-> makeKey(Flatten(runs)[n])]

FirstSeen(keys, key) ==
    CHOOSE n \in DOMAIN keys : keys[n] = key /\ \A m \in 1..(n - 1) : keys[m] # key

RECURSIVE BucketSizes(_)
BucketSizes(bs) == IF bs = <<>> THEN 0 ELSE Len(Head(bs).locs) + BucketSizes(Tail(bs))

\* C15: the response holds exactly one merged record per distinct bucket key
\* of the salvaged reports, in the order in which the keys were first seen,
\* and every salvaged report is in exactly one bucket: the bucket sizes add up
\* to the number of salvaged reports.
C15_OneRecordPerKey ==
    Answered =>
        /\ Len(Merged) = Cardinality({SalvagedKeys[n] : n \in DOMAIN SalvagedKeys})
        /\ Len(buckets) = Len(Merged)
        /\ \A j \in DOMAIN buckets :
              /\ \E n \in DOMAIN SalvagedKeys : SalvagedKeys[n] = buckets[j].key
              /\ Merged[j].location_text = majority(buckets[j].locs).value
              /\ Len(buckets[j].locs) =
                    Cardinality({n \in DOMAIN SalvagedKeys : SalvagedKeys[n] = buckets[j].key})
        /\ \A a, b \in DOMAIN buckets :
              a < b => FirstSeen(SalvagedKeys, buckets[a].key) < FirstSeen(SalvagedKeys, buckets[b].key)
        /\ BucketSizes(buckets) = Len(SalvagedKeys)

\* a key seen again after another key was first seen
C15_Witness ==
    /\ Answered
    /\ Len(Merged) >= 2
    /\ \E a, b, c \in DOMAIN SalvagedKeys :
          a < b /\ b < c /\ SalvagedKeys[a] = SalvagedKeys[c] /\ SalvagedKeys[a] # SalvagedKeys[b]

---------------------------------------------------------------------------
\* needsConsensus as a function of its arguments (SpecNeeds)

\* The needs lists a candidate may carry.
NeedLists ==
    { <<>>,
      <<<<"W","a","t","e","r"," ">>>>,
      <<<<"w","a","t","e","r">>, <<"f","o","o","d">>>>,
      <<<<"m","e","d","i","c">>, <<"g","a","s">>>>,
      <<<<" ">>, <<"f","o","o","d">>>>,
      <<<<"w","a","t","e","r">>, <<" ","W","A","T","E","R">>>>,
      <<<<"g","a","s">>, <<"r","o","a","d">>, <<"F","o","o","d">>>> }

InitNeeds ==
    /\ HandlerIdle
    /\ buckets = <<>>
    /\ DetIdle
    /\ ncIn = <<>>
    /\ ncK \in 1..MaxK
    /\ ncOut = [needs |-> <<>>, conf |-> Frac(0, 1)]
    /\ ncPc = "build"
    /\ FnIdle
    /\ ExtIdle

\* one more candidate in the bucket
NcPush ==
    /\ ncPc = "build"
    /\ Len(ncIn) < MaxCands
    /\ \E list \in NeedLists : ncIn' = Append(ncIn, list)
    /\ UNCHANGED <<ncK, ncOut, ncPc, handlerVars, buckets, detVars, fnVars, extVars>>

\* const needsMaj = needsConsensus(b.needs, k)
NcRun ==
    /\ ncPc = "build"
    /\ ncOut' = needsConsensus(ncIn, ncK)
    /\ ncPc' = "done"
    /\ UNCHANGED <<ncIn, ncK, handlerVars, buckets, detVars, fnVars, extVars>>

NextNeeds == NcPush \/ NcRun

SpecNeeds == InitNeeds /\ [][NextNeeds]_vars

\* the need tokens of the candidates, lower-cased and trimmed, blanks left out
NcTokens ==
    UNION {{trim(toLowerCase(ncIn[c][n])) : n \in DOMAIN ncIn[c]} : c \in DOMAIN ncIn}
        \ {<<>>}

\* the number of candidates in which the token appears
NcCandidates(tok) ==
    Cardinality({c \in DOMAIN ncIn :
                    \E n \in DOMAIN ncIn[c] : trim(toLowerCase(ncIn[c][n])) = tok})

\* C7: every need token (compared lower-cased and trimmed) that appears in at
\* least ceil(k/2) of the bucket's candidates is present in the merged needs.
C7_MajorityNeedsKept ==
    ncPc = "done" =>
        \A tok \in NcTokens :
            2 * NcCandidates(tok) >= ncK => \E n \in DOMAIN ncOut.needs : ncOut.needs[n] = tok

\* a token at exactly the threshold of an even k, next to one above it
C7_Witness ==
    /\ ncPc = "done"
    /\ ncK = 2
    /\ \E tok \in NcTokens :
          /\ NcCandidates(tok) = 1
          /\ \E n \in DOMAIN ncOut.needs : ncOut.needs[n] = tok
    /\ \E tok \in NcTokens : NcCandidates(tok) > 1

\* the need strings of the candidates in the order in which the loops of
\* lines 172-178 visit them
NcFlat == Flatten(ncIn)

\* counts.get(tok): the occurrences of the token
NcCount(tok) == Cardinality({n \in DOMAIN NcFlat : trim(toLowerCase(NcFlat[n])) = tok})

NcFirst(tok) == CHOOSE n \in DOMAIN NcFlat :
                    /\ trim(toLowerCase(NcFlat[n])) = tok
                    /\ \A m \in 1..(n - 1) : trim(toLowerCase(NcFlat[m])) # tok

\* more frequent, or as frequent and seen earlier
NcBefore(a, b) ==
    \/ NcCount(a) > NcCount(b)
    \/ NcCount(a) = NcCount(b) /\ NcFirst(a) < NcFirst(b)

NcFallback == \A tok \in NcTokens : 2 * NcCount(tok) < ncK

\* C23: when a candidate carries a non-blank need token the merged needs is
\* not empty; when no count reaches ceil(k/2) it is the (at most) 3 most
\* frequent tokens, by descending count, equal counts in first-seen order.
C23_FallbackTopThree ==
    ncPc = "done" =>
        /\ NcTokens # {} => ncOut.needs # <<>>
        /\ NcFallback =>
              /\ Len(ncOut.needs) = Min(3, Cardinality(NcTokens))
              /\ \A n \in DOMAIN ncOut.needs : ncOut.needs[n] \in NcTokens
              /\ \A n, m \in DOMAIN ncOut.needs :
                    n < m => NcBefore(ncOut.needs[n], ncOut.needs[m])
              /\ \A tok \in NcTokens :
                    (\A n \in DOMAIN ncOut.needs : ncOut.needs[n] # tok) =>
                        \A n \in DOMAIN ncOut.needs : NcBefore(ncOut.needs[n], tok)

\* four tokens below the threshold, the most frequent one not seen first, and
\* two equally frequent ones among the three that are kept
C23_Witness ==
    /\ ncPc = "done"
    /\ NcFallback
    /\ Cardinality(NcTokens) >= 4
    /\ Len(ncOut.needs) = 3
    /\ NcFirst(ncOut.needs[1]) > 1
    /\ NcCount(ncOut.needs[1]) > NcCount(ncOut.needs[2])
    /\ NcCount(ncOut.needs[2]) = NcCount(ncOut.needs[3])

---------------------------------------------------------------------------
\* The merge step executed twice on the same salvaged runs (SpecDet)

\* The runs parseModelJson can hand to the merge step.
SalvagedRuns == {pushRun(<<>>, c)[1] : c \in {x \in Contents : x.kind = "json"}}

RunLists == UNION {[1..n -> SalvagedRuns] : n \in 0..MaxDetRuns}

InitDet ==
    /\ HandlerIdle
    /\ buckets = <<>>
    /\ NcIdle
    /\ detRuns \in RunLists
    /\ detOut = <<>>
    /\ detPc = 0
    /\ FnIdle
    /\ ExtIdle

\* lines 252-335 on detRuns
Replay ==
    /\ detPc < 2
    /\ \E seed \in UuidSeeds :
          LET bs == fillBuckets(FreshBuckets, detRuns)
          IN IF MergeThrows(detRuns)
             THEN /\ detOut' = Append(detOut, Unhandled("TypeError"))
                  /\ UNCHANGED buckets
             ELSE /\ buckets' = bs
                  /\ detOut' = Append(detOut, ReportsResponse(mergeAll(bs, kOf(detRuns), seed)))
    /\ detPc' = detPc + 1
    /\ UNCHANGED <<detRuns, handlerVars, ncVars, fnVars, extVars>>

NextDet == Replay

SpecDet == InitDet /\ [][NextDet]_vars

WithoutId(m) ==
    [location_text |-> m.location_text, time_iso |-> m.time_iso, severity |-> m.severity,
     needs |-> m.needs, notes |-> m.notes, dedupe_key |-> m.dedupe_key,
     confidence_overall |-> m.confidence_overall, confields |-> m.confields]

WithoutIds(resp) ==
    [status |-> resp.status, error |-> resp.error,
     reports |-> [j \in DOMAIN resp.reports |-> WithoutId(resp.reports[j])]]

---------------------------------------------------------------------------
\* Risk scorer (src/lib/risk.ts), as a function of its argument (SpecRisk)

\* obj[key] on an object literal: an own property, else what the literal
\* inherits from Object.prototype (a function), else undefined
ObjectPrototype == {<<"c","o","n","s","t","r","u","c","t","o","r">>}

Get(obj, key) ==
    IF key \in DOMAIN obj THEN [js |-> "number", n |-> obj[key]]
    ELSE IF key \in ObjectPrototype THEN [js |-> "function", n |-> 0]
    ELSE [js |-> "undefined", n |-> 0]

SEVERITY_WEIGHT ==
    (SevLow :> 10) @@ (SevModerate :> 35) @@ (SevHigh :> 60) @@ (SevCritical :> 80)

NEED_WEIGHT ==
    (<<"m","e","d","i","c","a","l">> :> 25) @@ (<<"r","e","s","c","u","e">> :> 20) @@ (<<"e","v","a","c","u","a","t","i","o","n">> :> 15)
    @@ (<<"f","i","r","e">> :> 20) @@ (<<"u","t","i","l","i","t","y">> :> 12) @@ (<<"p","u","b","l","i","c","-","w","o","r","k","s">> :> 12)
    @@ (<<"s","e","c","u","r","i","t","y">> :> 10) @@ (<<"w","a","t","e","r">> :> 8) @@ (<<"f","o","o","d">> :> 8)

Num(n) == [js |-> "number", n |-> n]

\* x || 0
OrZero(x) == IF x.js = "undefined" \/ (x.js = "number" /\ x.n = 0) THEN Num(0) ELSE x

\* .sort((a, b) => b - a), stable; b - a is NaN unless both are numbers, and a
\* comparator result of NaN leaves the two in place
RECURSIVE weightInsert(_, _)
weightInsert(sorted, w) ==
    IF sorted = <<>> THEN <<w>>
    ELSE IF w.js = "number" /\ Head(sorted).js = "number" /\ w.n > Head(sorted).n
         THEN <<w>> \o sorted
         ELSE <<Head(sorted)>> \o weightInsert(Tail(sorted), w)

RECURSIVE sortWeights(_)
sortWeights(ws) ==
    IF ws = <<>> THEN <<>>
    ELSE weightInsert(sortWeights(SubSeq(ws, 1, Len(ws) - 1)), ws[Len(ws)])

\* score += w: a number, or the string that + makes of a number and a function
Plus(score, w) ==
    IF score.js = "number" /\ w.js = "number" THEN Num(score.n + w.n)
    ELSE [js |-> "string", n |-> 0]

RECURSIVE addWeights(_, _)
addWeights(score, ws) ==
    IF ws = <<>> THEN score ELSE addWeights(Plus(score, Head(ws)), Tail(ws))

\* Date.parse(iso): seconds of the day 2024-03-05 (UTC), or NaN
DateParse(iso) ==
    CASE iso = T1000 -> [nan |-> FALSE, t |-> 10 * 3600]
      [] iso = T1000b -> [nan |-> FALSE, t |-> 10 * 3600 + 30]
      [] iso = T1001 -> [nan |-> FALSE, t |-> 10 * 3600 + 60]
      [] OTHER -> [nan |-> TRUE, t |-> 0]

\* lines 70-80: the factor that multiplies the score, in tenths
timeDecay(time_iso, now) ==
    IF time_iso # NULL /\ time_iso # <<>>
    THEN LET t == DateParse(time_iso)
         IN IF ~t.nan
            THEN IF now - t.t > 12 * 3600 THEN 7
                 ELSE IF now - t.t > 6 * 3600 THEN 8
                 ELSE IF now - t.t > 2 * 3600 THEN 9
                 ELSE 10
            ELSE 10
    ELSE 9

\* Math.round(score * 0.7), * 0.8, * 0.9 in IEEE-754 doubles: half-way cases
\* round up, and the products 45 * 0.7 and 85 * 0.7 fall just below the half
roundTimes(n, tenths) ==
    IF tenths = 7 /\ n \in {45, 85} THEN (n * tenths) \div 10
    ELSE (n * tenths + 5) \div 10

NaN == [nan |-> TRUE, n |-> 0]

\* Math.max(0, Math.min(100, x))
clamp(x) == [nan |-> FALSE, n |-> Max(0, Min(100, x))]

computeRiskScore(severity, needs, time_iso, now) ==
    LET sev == IF severity # NULL /\ severity # <<>>
               THEN Get(SEVERITY_WEIGHT, severity) ELSE [js |-> "undefined", n |-> 0]
        score0 == IF sev.js # "undefined" THEN Plus(Num(0), sev) ELSE Num(0)
        nrm == normalizeNeeds(needs)
        weights == sortWeights([j \in DOMAIN nrm |-> OrZero(Get(NEED_WEIGHT, nrm[j]))])
        top == SubSeq(weights, 1, Min(2, Len(weights)))
        score == addWeights(score0, top)
    IN IF score.js = "number"
       THEN clamp(roundTimes(score.n, timeDecay(time_iso, now)))
       ELSE NaN

RiskSeverities == {NULL, SevLow, SevModerate, SevHigh, SevCritical, SevExtreme}

\* The needs lists of a report: empty, synonyms, unknown tokens, more than two
RiskNeedLists ==
    { <<>>,
      <<<<" ">>>>,
      <<<<"W","a","t","e","r"," ">>>>,
      <<<<"m","e","d","i","c">>, <<"t","r","a","p","p","e","d">>>>,
      <<<<"c","r","o","w","d">>>>,
      <<<<"m","e","d","i","c","a","l">>>>,
      <<<<"g","a","s">>, <<"r","o","a","d">>, <<"F","o","o","d">>, <<"f","i","r","s","t"," ","a","i","d">>>>,
      <<<<"b","o","a","t","s">>>>,
      <<<<"c","o","n","s","t","r","u","c","t","o","r">>>>,
      <<<<"m","e","d","i","c">>, <<"C","o","n","s","t","r","u","c","t","o","r">>>> }

RiskTimes == {NULL, <<>>, TSoon, T1000}

\* Date.now(), in seconds of the same day: before T1000, and around each threshold
RiskNows ==
    {9 * 3600, 10 * 3600, 12 * 3600, 12 * 3600 + 1, 16 * 3600, 16 * 3600 + 1,
     22 * 3600, 22 * 3600 + 1}

InitRisk ==
    /\ HandlerIdle
    /\ buckets = <<>>
    /\ NcIdle
    /\ DetIdle
    /\ NnIdle /\ SfIdle /\ MjIdle /\ SvIdle
    /\ ExtIdle
    /\ rkIn \in [severity : RiskSeverities, needs : RiskNeedLists,
                 time_iso : RiskTimes, now : RiskNows]
    /\ rkOut = NaN
    /\ rkPc = "call"

RiskRun ==
    /\ rkPc = "call"
    /\ rkOut' = computeRiskScore(rkIn.severity, rkIn.needs, rkIn.time_iso, rkIn.now)
    /\ rkPc' = "done"
    /\ UNCHANGED <<rkIn, handlerVars, buckets, ncVars, detVars, nnVars, sfVars, mjVars, svVars, extVars>>

NextRisk == RiskRun

SpecRisk == InitRisk /\ [][NextRisk]_vars

\* C11: computeRiskScore returns an integer in [0,100] for every combination
\* of severity (null included), needs list (empty lists and unknown tokens
\* included) and time_iso (absent, unparseable, past or future).
C11_RiskScoreInRange == rkPc = "done" => (~rkOut.nan /\ rkOut.n \in 0..100)

\* the same property for needs that name no member of Object.prototype
C11_RiskScoreInRangeOwnNeeds ==
    (rkPc = "done" /\ \A j \in DOMAIN rkIn.needs :
                          trim(toLowerCase(rkIn.needs[j])) \notin ObjectPrototype)
        => (~rkOut.nan /\ rkOut.n \in 0..100)

\* C12: for the same severity and needs, a time_iso that is present but not
\* parseable gives the score that an absent time_iso gives (the flat x0.9).
C12_UnparseableTimeAsAbsent ==
    (rkPc = "done" /\ rkIn.time_iso # NULL /\ DateParse(rkIn.time_iso).nan) =>
        rkOut = computeRiskScore(rkIn.severity, rkIn.needs, NULL, rkIn.now)



\* the weights as the claim states them
SevWeight(severity) ==
    IF severity = SevLow THEN 10 ELSE IF severity = SevModerate THEN 35
    ELSE IF severity = SevHigh THEN 60 ELSE IF severity = SevCritical THEN 80 ELSE 0

NeedWeightOrZero(tok) == IF tok \in DOMAIN NEED_WEIGHT THEN NEED_WEIGHT[tok] ELSE 0

\* the sum of the two largest weights of the normalized needs
TopTwo(needs) ==
    LET nrm == normalizeNeeds(needs)
        sums == {0} \cup {NeedWeightOrZero(nrm[a]) : a \in DOMAIN nrm}
                \cup {NeedWeightOrZero(nrm[p[1]]) + NeedWeightOrZero(nrm[p[2]]) :
                        p \in {q \in (DOMAIN nrm) \X (DOMAIN nrm) : q[1] # q[2]}}
    IN CHOOSE s \in sums : \A u \in sums : u <= s

\* m in tenths, from the age of a parseable time
AgeFactor(time_iso, now) ==
    LET age == now - DateParse(time_iso).t
    IN IF age > 12 * 3600 THEN 7 ELSE IF age > 6 * 3600 THEN 8
       ELSE IF age > 2 * 3600 THEN 9 ELSE 10

\* round(m x n) for m in tenths, halves rounded up
RoundTenths(n, tenths) == (n * tenths + 5) \div 10

HasAge == rkIn.time_iso # NULL /\ ~DateParse(rkIn.time_iso).nan

RiskOf(needs) == computeRiskScore(rkIn.severity, needs, rkIn.time_iso, rkIn.now)

\* the need strings that are added in the comparison of C25
MoreNeeds == {<<"m","e","d","i","c">>, <<"b","o","a","t","s">>, <<"f","o","o","d">>, <<"c","o","n","s","t","r","u","c","t","o","r">>}

\* C25: before clamping the score is round(m x (severity weight + the two
\* largest need weights of the normalized needs)), unknown needs weighing 0,
\* m = 0.7 / 0.8 / 0.9 / 1.0 by age; a third or further need never changes the
\* score, and adding a need never lowers it.
C25_ScoreFormula ==
    rkPc = "done" =>
        /\ HasAge =>
              /\ ~rkOut.nan
              /\ rkOut.n = Max(0, Min(100,
                     RoundTenths(SevWeight(rkIn.severity) + TopTwo(rkIn.needs),
                                 AgeFactor(rkIn.time_iso, rkIn.now))))
        /\ \A more \in MoreNeeds :
              /\ ~RiskOf(Append(rkIn.needs, more)).nan
              /\ ~rkOut.nan
              /\ RiskOf(Append(rkIn.needs, more)).n >= rkOut.n
              /\ (Len(normalizeNeeds(rkIn.needs)) >= 2
                    /\ \A j \in 1..2 : NeedWeightOrZero(normalizeNeeds(rkIn.needs)[j])
                                          >= NeedWeightOrZero(normalizeNeeds(<<more>>)[1]))
                 => RiskOf(Append(rkIn.needs, more)) = rkOut

OwnNeeds(needs) ==
    \A j \in DOMAIN needs : trim(toLowerCase(needs[j])) \notin ObjectPrototype

\* the same property for needs that name no member of Object.prototype, with
\* the rounding of Math.round on the double m x n
C25_ScoreFormulaOwnNeedsDoubles ==
    (rkPc = "done" /\ OwnNeeds(rkIn.needs)) =>
        /\ HasAge =>
              /\ ~rkOut.nan
              /\ rkOut.n = Max(0, Min(100,
                     roundTimes(SevWeight(rkIn.severity) + TopTwo(rkIn.needs),
                                AgeFactor(rkIn.time_iso, rkIn.now))))
        /\ \A more \in MoreNeeds \ ObjectPrototype :
              /\ ~RiskOf(Append(rkIn.needs, more)).nan
              /\ ~rkOut.nan
              /\ RiskOf(Append(rkIn.needs, more)).n >= rkOut.n
              /\ (Len(normalizeNeeds(rkIn.needs)) >= 2
                    /\ \A j \in 1..2 : NeedWeightOrZero(normalizeNeeds(rkIn.needs)[j])
                                          >= NeedWeightOrZero(normalizeNeeds(<<more>>)[1]))
                 => RiskOf(Append(rkIn.needs, more)) = rkOut

\* the same property with exact rounding, for own needs only
C25_ScoreFormulaOwnNeeds ==
    (rkPc = "done" /\ OwnNeeds(rkIn.needs) /\ HasAge) =>
        /\ ~rkOut.nan
        /\ rkOut.n = Max(0, Min(100,
               RoundTenths(SevWeight(rkIn.severity) + TopTwo(rkIn.needs),
                           AgeFactor(rkIn.time_iso, rkIn.now))))

---------------------------------------------------------------------------
\* normalizeNeeds as a function of its argument (SpecNorm)

MaxNeeds == 2

\* The tokens a needs list may hold: a phrase of every rule, the canonical
\* tokens, unknown tokens, capitals, white space
NeedTokens ==
    { <<"E","M","T">>, <<"f","i","r","s","t"," ","a","i","d">>, <<"t","r","a","p","p","e","d">>, <<" ","s","h","e","l","t","e","r"," ">>, <<"S","m","o","k","e">>, <<"g","a","s">>,
      <<"p","o","w","e","r"," ","l","i","n","e","s">>, <<"w","a","t","e","r"," ","m","a","i","n">>, <<"r","o","a","d">>, <<"p","u","b","l","i","c"," ","w","o","r","k","s">>, <<"c","r","o","w","d">>,
      <<"W","a","t","e","r">>, <<"f","o","o","d">>, <<"b","o","a","t","s">>, <<" ">>, <<>>,
      <<"m","e","d","i","c","a","l">>, <<"r","e","s","c","u","e">>, <<"e","v","a","c","u","a","t","i","o","n">>, <<"f","i","r","e">>, <<"u","t","i","l","i","t","y">>,
      <<"p","u","b","l","i","c","-","w","o","r","k","s">>, <<"s","e","c","u","r","i","t","y">>, <<"w","a","t","e","r">> }

InitNorm ==
    /\ HandlerIdle
    /\ buckets = <<>>
    /\ NcIdle
    /\ DetIdle
    /\ RkIdle /\ SfIdle /\ MjIdle /\ SvIdle
    /\ ExtIdle
    /\ nnIn = <<>>
    /\ nnOut = <<>>
    /\ nnPc = "build"

\* one more token in the list
NnPush ==
    /\ nnPc = "build"
    /\ Len(nnIn) < MaxNeeds
    /\ \E tok \in NeedTokens : nnIn' = Append(nnIn, tok)
    /\ UNCHANGED <<nnOut, nnPc, handlerVars, buckets, ncVars, detVars, rkVars, sfVars, mjVars, svVars, extVars>>

NnRun ==
    /\ nnPc = "build"
    /\ nnOut' = normalizeNeeds(nnIn)
    /\ nnPc' = "done"
    /\ UNCHANGED <<nnIn, handlerVars, buckets, ncVars, detVars, rkVars, sfVars, mjVars, svVars, extVars>>

NextNorm == NnPush \/ NnRun

SpecNorm == InitNorm /\ [][NextNorm]_vars

\* C13: normalizeNeeds is idempotent: normalizing its result again gives the
\* same tokens in the same order.
C13_NormalizeIdempotent == nnPc = "done" => normalizeNeeds(nnOut) = nnOut

\* a list whose two tokens are both rewritten, to two different canonical tokens
C13_Witness ==
    /\ nnPc = "done"
    /\ Len(nnOut) = 2
    /\ \A j \in DOMAIN nnOut : \A n \in DOMAIN nnIn : nnOut[j] # trim(toLowerCase(nnIn[n]))


\* the rule order of the claim
RuleOrder ==
    <<<<"m","e","d","i","c","a","l">>, <<"r","e","s","c","u","e">>, <<"e","v","a","c","u","a","t","i","o","n">>, <<"f","i","r","e">>, <<"u","t","i","l","i","t","y">>,
      <<"p","u","b","l","i","c","-","w","o","r","k","s">>, <<"s","e","c","u","r","i","t","y">>, <<"w","a","t","e","r">>, <<"f","o","o","d">>>>

\* an input phrase, lower-cased and trimmed
NnKey(n) == trim(toLowerCase(nnIn[n]))

\* the rules that match the phrase
NnMatching(n) == {r \in DOMAIN NeedRules : RuleMatches(NeedRules[r], NnKey(n))}

\* what the phrase becomes: the token of the earliest matching rule, else itself
NnImage(n) ==
    IF NnMatching(n) = {} THEN NnKey(n)
    ELSE RuleOrder[CHOOSE r \in NnMatching(n) : \A q \in NnMatching(n) : r <= q]

NnKept == {n \in DOMAIN nnIn : NnKey(n) # <<>>}

NnFirstOf(tok) == CHOOSE n \in NnKept : NnImage(n) = tok /\ \A m \in NnKept : NnImage(m) = tok => n <= m

\* C26: each phrase is mapped by the first rule that matches, in the order
\* medical, rescue, evacuation, fire, utility, public-works, security, water,
\* food; blank phrases are dropped, unmatched phrases pass through lower-cased
\* and trimmed, and the output holds each token once, in first-occurrence order.
C26_FirstRuleWins ==
    /\ [r \in DOMAIN NeedRules |-> NeedRules[r].canon] = RuleOrder
    /\ nnPc = "done" =>
          /\ {nnOut[a] : a \in DOMAIN nnOut} = {NnImage(n) : n \in NnKept}
          /\ \A a, b \in DOMAIN nnOut : a # b => nnOut[a] # nnOut[b]
          /\ \A a, b \in DOMAIN nnOut : a < b => NnFirstOf(nnOut[a]) < NnFirstOf(nnOut[b])

\* a phrase that two rules match next to one the first of them matches too:
\* both become the earlier rule's token, once
C26_Witness ==
    /\ nnPc = "done"
    /\ Len(nnIn) = 2
    /\ NnKept = {1, 2}
    /\ Cardinality(NnMatching(1)) = 1
    /\ Cardinality(NnMatching(2)) = 2
    /\ Len(nnOut) = 1

---------------------------------------------------------------------------
\* Facility matcher (src/lib/risk.ts), as a function of its arguments (SpecFac)

MaxFacilities == 3
MaxLimit == 3
DefaultLimit == 3

TypeHospital == <<"h","o","s","p","i","t","a","l">>
TypeShelter == <<"s","h","e","l","t","e","r">>
TypeFire == <<"f","i","r","e">>
TypePolice == <<"p","o","l","i","c","e">>
TypePublicWorks == <<"p","u","b","l","i","c","-","w","o","r","k","s">>
TypeUtility == <<"u","t","i","l","i","t","y">>

NEED_TO_FACILITY ==
    (<<"m","e","d","i","c","a","l">> :> <<TypeHospital>>) @@ (<<"r","e","s","c","u","e">> :> <<TypeFire>>)
    @@ (<<"f","i","r","e">> :> <<TypeFire>>) @@ (<<"e","v","a","c","u","a","t","i","o","n">> :> <<TypeShelter>>)
    @@ (<<"p","u","b","l","i","c","-","w","o","r","k","s">> :> <<TypePublicWorks>>) @@ (<<"u","t","i","l","i","t","y">> :> <<TypeUtility>>)
    @@ (<<"w","a","t","e","r">> :> <<TypePublicWorks, TypeShelter>>) @@ (<<"f","o","o","d">> :> <<TypeShelter>>)
    @@ (<<"s","e","c","u","r","i","t","y">> :> <<TypePolice>>)

NEED_TO_CAPS ==
    (<<"m","e","d","i","c","a","l">> :> <<<<"e","r">>, <<"t","r","a","u","m","a">>, <<"i","c","u">>, <<"p","e","d","i","a","t","r","i","c">>, <<"s","u","r","g","e","r","y">>, <<"h","e","l","i","p","a","d">>>>)
    @@ (<<"r","e","s","c","u","e">> :> <<<<"u","s","a","r">>, <<"r","o","p","e">>, <<"s","w","i","f","t","w","a","t","e","r">>, <<"h","a","z","m","a","t">>>>)
    @@ (<<"f","i","r","e">> :> <<<<"f","i","r","e","f","i","g","h","t","i","n","g">>, <<"h","a","z","m","a","t">>>>)
    @@ (<<"e","v","a","c","u","a","t","i","o","n">> :> <<<<"s","h","e","l","t","e","r">>, <<"c","o","t","s">>, <<"b","l","a","n","k","e","t","s">>, <<"a","c","c","e","s","s","i","b","l","e">>, <<"p","e","t","s">>>>)
    @@ (<<"p","u","b","l","i","c","-","w","o","r","k","s">> :> <<<<"p","u","m","p","s">>, <<"s","a","n","d","b","a","g","s">>, <<"d","e","b","r","i","s">>, <<"h","e","a","v","y","-","e","q","u","i","p","m","e","n","t">>>>)
    @@ (<<"u","t","i","l","i","t","y">> :> <<<<"l","i","n","e","c","r","e","w">>, <<"e","l","e","c","t","r","i","c">>, <<"g","a","s">>, <<"w","a","t","e","r">>, <<"s","u","b","s","t","a","t","i","o","n">>>>)
    @@ (<<"w","a","t","e","r">> :> <<<<"w","a","t","e","r">>, <<"p","u","m","p","s">>, <<"b","o","t","t","l","e","d","-","w","a","t","e","r">>>>)
    @@ (<<"f","o","o","d">> :> <<<<"f","o","o","d">>, <<"m","e","a","l","s">>>>)
    @@ (<<"s","e","c","u","r","i","t","y">> :> <<<<"c","r","o","w","d","-","c","o","n","t","r","o","l">>, <<"p","e","r","i","m","e","t","e","r">>, <<"t","r","a","f","f","i","c">>>>)

TYPE_WEIGHT ==
    (TypeHospital :> 30) @@ (TypeFire :> 25) @@ (TypeShelter :> 18)
    @@ (TypePublicWorks :> 15) @@ (TypeUtility :> 15) @@ (TypePolice :> 12)

\* capabilities is optional
NoCaps == [given |-> FALSE, tags |-> <<>>]
Caps(tags) == [given |-> TRUE, tags |-> tags]

Facility(id, type, name, caps) == [id |-> id, type |-> type, name |-> name, capabilities |-> caps]

\* The facilities a directory may list.
FacilityPool ==
    { Facility("f1", TypeHospital, <<"B","a","y">>, Caps(<<<<"e","r">>, <<"T","r","a","u","m","a">>>>)),
      Facility("f2", TypeFire, <<"b","a","y">>, Caps(<<<<"h","a","z","m","a","t">>>>)),
      Facility("f3", TypeFire, <<"B","a","y">>, Caps(<<<<"U","S","A","R">>>>)),
      Facility("f4", TypeShelter, <<"A","d","a">>, NoCaps),
      Facility("f5", TypePolice, <<"C","o","l","e">>, Caps(<<<<"p","u","m","p","s">>, <<"w","a","t","e","r">>, <<"P","u","m","p","s">>>>)),
      Facility("f6", TypePublicWorks, <<"D","u","n","e">>, Caps(<<>>)) }

\* lines 152-155: the sets desiredTypes and desiredCaps; the loop throws a
\* TypeError when a table yields a value without forEach
Desired(table, nrm) ==
    UNION {LET v == table[nrm[j]] IN {v[n] : n \in DOMAIN v} :
              j \in {x \in DOMAIN nrm : nrm[x] \in DOMAIN table}}

DesiredThrows(table, nrm) ==
    \E j \in DOMAIN nrm : Get(table, nrm[j]).js = "function"

RECURSIVE capMatches(_, _)
capMatches(caps, desiredCaps) ==
    IF caps = <<>> THEN 0
    ELSE (IF toLowerCase(Head(caps)) \in desiredCaps THEN 1 ELSE 0)
         + capMatches(Tail(caps), desiredCaps)

scoreFacility(f, desiredTypes, desiredCaps) ==
    (IF f.type \in desiredTypes
     THEN (IF f.type \in DOMAIN TYPE_WEIGHT THEN TYPE_WEIGHT[f.type] ELSE 0)
     ELSE 0)
    + capMatches(IF f.capabilities.given THEN f.capabilities.tags ELSE <<>>, desiredCaps) * 8

\* a.localeCompare(b) < 0 for names of letters: the letters decide whatever
\* their case, and between names that differ in case only, the first
\* difference decides, lower case first
RECURSIVE CaseLess(_, _)
CaseLess(a, b) ==
    IF a = <<>> \/ b = <<>> THEN FALSE
    ELSE IF Head(a) = Head(b) THEN CaseLess(Tail(a), Tail(b))
    ELSE toLowerChar(Head(a)) = Head(a)

localeLess(a, b) ==
    \/ StrLess(toLowerCase(a), toLowerCase(b))
    \/ (toLowerCase(a) = toLowerCase(b) /\ CaseLess(a, b))

\* (a, b) => b.score - a.score || a.f.name.localeCompare(b.f.name), negative
scoredBefore(a, b) ==
    \/ a.score > b.score
    \/ (a.score = b.score /\ localeLess(a.f.name, b.f.name))

\* Array.prototype.sort with that comparator, which is stable
RECURSIVE scoredInsert(_, _)
scoredInsert(sorted, x) ==
    IF sorted = <<>> THEN <<x>>
    ELSE IF scoredBefore(x, Head(sorted)) THEN <<x>> \o sorted
    ELSE <<Head(sorted)>> \o scoredInsert(Tail(sorted), x)

RECURSIVE sortScored(_)
sortScored(xs) ==
    IF xs = <<>> THEN <<>>
    ELSE scoredInsert(sortScored(SubSeq(xs, 1, Len(xs) - 1)), xs[Len(xs)])

NoLimit == [given |-> FALSE, n |-> 0]

\* limit = 3
limitOf(limit) == IF limit.given THEN limit.n ELSE DefaultLimit

Returned(list) == [threw |-> FALSE, list |-> list]
TypeError == [threw |-> TRUE, list |-> <<>>]

suggestFacilities(needs, facilities, limit) ==
    LET nrm == normalizeNeeds(needs)
        desiredTypes == Desired(NEED_TO_FACILITY, nrm)
        desiredCaps == Desired(NEED_TO_CAPS, nrm)
        scored == sortScored([j \in DOMAIN facilities |->
                     [f |-> facilities[j],
                      score |-> scoreFacility(facilities[j], desiredTypes, desiredCaps)]])
        kept == SelectSeq(scored, LAMBDA s : s.score > 0)
        top == SubSeq(kept, 1, Min(limitOf(limit), Len(kept)))
    IN IF nrm = <<>> THEN Returned(<<>>)
       ELSE IF DesiredThrows(NEED_TO_FACILITY, nrm) \/ DesiredThrows(NEED_TO_CAPS, nrm)
       THEN TypeError
       ELSE Returned([j \in DOMAIN top |-> top[j].f])

\* The needs of a report
FacNeedLists ==
    { <<>>,
      <<<<" ">>>>,
      <<<<"m","e","d","i","c","a","l">>>>,
      <<<<"W","a","t","e","r"," ">>, <<"t","r","a","p","p","e","d">>>>,
      <<<<"b","o","a","t","s">>>>,
      <<<<"c","r","o","w","d">>, <<"p","u","m","p">>, <<"r","e","s","c","u","e">>>>,
      <<<<"r","e","s","c","u","e">>, <<"c","o","n","s","t","r","u","c","t","o","r">>>> }

\* The directories: up to MaxFacilities facilities, none listed twice
Directories ==
    UNION {{d \in [1..n -> FacilityPool] : \A a, b \in 1..n : d[a] = d[b] => a = b} :
              n \in 0..MaxFacilities}

Limits == {NoLimit} \cup {[given |-> TRUE, n |-> n] : n \in 0..MaxLimit}

InitFac ==
    /\ HandlerIdle
    /\ buckets = <<>>
    /\ NcIdle
    /\ DetIdle
    /\ RkIdle /\ NnIdle /\ MjIdle /\ SvIdle
    /\ ExtIdle
    /\ sfIn \in [needs : FacNeedLists, facilities : Directories, limit : Limits]
    /\ sfOut = Returned(<<>>)
    /\ sfPc = "call"

FacRun ==
    /\ sfPc = "call"
    /\ sfOut' = suggestFacilities(sfIn.needs, sfIn.facilities, sfIn.limit)
    /\ sfPc' = "done"
    /\ UNCHANGED <<sfIn, handlerVars, buckets, ncVars, detVars, rkVars, nnVars, mjVars, svVars, extVars>>

NextFac == FacRun

SpecFac == InitFac /\ [][NextFac]_vars

\* the canonical tokens of the needs
FacNeeds == {canonOf(trim(toLowerCase(sfIn.needs[j]))) : j \in DOMAIN sfIn.needs}

TypeDesired(f) ==
    \E need \in FacNeeds \cap DOMAIN NEED_TO_FACILITY :
        \E n \in DOMAIN NEED_TO_FACILITY[need] : NEED_TO_FACILITY[need][n] = f.type

TagDesired(tag) ==
    \E need \in FacNeeds \cap DOMAIN NEED_TO_CAPS :
        \E n \in DOMAIN NEED_TO_CAPS[need] : NEED_TO_CAPS[need][n] = toLowerCase(tag)

\* type weight if the type is desired, plus 8 per desired capability tag
FacScore(f) ==
    (IF TypeDesired(f) THEN TYPE_WEIGHT[f.type] ELSE 0)
    + 8 * Cardinality({n \in DOMAIN f.capabilities.tags : TagDesired(f.capabilities.tags[n])})

\* f ranks before g: a higher score, or the same score and a smaller name
RanksBefore(f, g) ==
    \/ FacScore(f) > FacScore(g)
    \/ (FacScore(f) = FacScore(g) /\ localeLess(f.name, g.name))

InList(list, f) == \E n \in DOMAIN list : list[n] = f

FacCorrect ==
    LET out == sfOut.list
        limit == limitOf(sfIn.limit)
    IN /\ ~sfOut.threw
       /\ \A n \in DOMAIN out : InList(sfIn.facilities, out[n]) /\ FacScore(out[n]) > 0
       /\ \A a, b \in DOMAIN out : a < b => (out[a] # out[b] /\ ~RanksBefore(out[b], out[a]))
       /\ Len(out) <= limit
       /\ \A n \in DOMAIN sfIn.facilities :
             LET g == sfIn.facilities[n]
             IN (FacScore(g) > 0 /\ ~InList(out, g)) =>
                   (Len(out) = limit /\ \A a \in DOMAIN out : ~RanksBefore(g, out[a]))
       /\ FacNeeds \subseteq {<<>>} => out = <<>>

\* C14: suggestFacilities returns exactly the facilities whose score is > 0
\* (type weight if the type is desired by some need, plus 8 per capability tag
\* desired by some need), by descending score, ties by ascending name, cut to
\* the first limit: no zero-score facility, never more than limit entries, and
\* an empty result for empty needs.
C14_SuggestedFacilities == sfPc = "done" => FacCorrect

\* the same property for needs that name no member of Object.prototype
C14_SuggestedFacilitiesOwnNeeds ==
    (sfPc = "done" /\ FacNeeds \cap ObjectPrototype = {}) => FacCorrect

\* a tie on the score decided by the name, a zero-score facility left out
C14_OwnNeedsCase ==
    /\ sfPc = "done"
    /\ Len(sfOut.list) = 2
    /\ FacScore(sfOut.list[1]) = FacScore(sfOut.list[2])
    /\ Len(sfIn.facilities) = 3
    /\ sfIn.facilities[1] = sfOut.list[2]


---------------------------------------------------------------------------
\* majority as a function of its argument (SpecMaj)

MaxArr == 4

\* The values of a bucket's candidates for one field
MajValues == {NULL, <<"O","a","k">>, <<"P","i","n","e">>}

InitMaj ==
    /\ HandlerIdle
    /\ buckets = <<>>
    /\ NcIdle
    /\ DetIdle
    /\ RkIdle /\ NnIdle /\ SfIdle /\ SvIdle
    /\ ExtIdle
    /\ mjIn = <<>>
    /\ mjOut = [value |-> NULL, count |-> 0]
    /\ mjPc = "build"

\* one more candidate
MjPush ==
    /\ mjPc = "build"
    /\ Len(mjIn) < MaxArr
    /\ \E v \in MajValues : mjIn' = Append(mjIn, v)
    /\ UNCHANGED <<mjOut, mjPc, handlerVars, buckets, ncVars, detVars, rkVars, nnVars, sfVars, svVars, extVars>>

MjRun ==
    /\ mjPc = "build"
    /\ mjOut' = majority(mjIn)
    /\ mjPc' = "done"
    /\ UNCHANGED <<mjIn, handlerVars, buckets, ncVars, detVars, rkVars, nnVars, sfVars, svVars, extVars>>

NextMaj == MjPush \/ MjRun

SpecMaj == InitMaj /\ [][NextMaj]_vars

\* the values that occur most often
MjTied == {mjIn[n] : n \in {x \in DOMAIN mjIn : Occ(mjIn, mjIn[x]) = MaxOcc(mjIn)}}

\* the position at which v occurs for the c-th time
ReachedAt(arr, v, c) ==
    CHOOSE n \in DOMAIN arr : arr[n] = v /\ Occ(SubSeq(arr, 1, n), v) = c

\* C17: when two or more distinct values tie for the highest
\* count, majority() returns the tied value that was encountered first (the
\* earliest first occurrence), not the one that reached the count first.
C17_TieToFirstEncountered ==
    (mjPc = "done" /\ mjIn # <<>>) =>
        /\ mjOut.value \in MjTied
        /\ \A w \in MjTied : FirstSeen(mjIn, mjOut.value) <= FirstSeen(mjIn, w)

\* what majority() returns instead: the tied value that reached the highest
\* count first, with that count
C17_TieToFirstToReach ==
    (mjPc = "done" /\ mjIn # <<>>) =>
        /\ mjOut.value \in MjTied
        /\ mjOut.count = MaxOcc(mjIn)
        /\ \A w \in MjTied :
              ReachedAt(mjIn, mjOut.value, MaxOcc(mjIn)) <= ReachedAt(mjIn, w, MaxOcc(mjIn))


---------------------------------------------------------------------------
\* parseModelJson as a function of the response text (SpecSalvage)

\* What precedes the JSON in a response text
Prefixes ==
    { <<>>, <<"o","k"," ">>, <<"'","'","'","j","s","o","n","\n">>, <<"o","k",":"," ","'","'","'"," ">>, <<"<","j","s","o","n",">">>, <<"x"," ","[","1","]"," ">>, <<"s","a","y"," ","\"","h","i","\""," ">> }

\* The JSON of a response text, well-formed or not
Cores ==
    { <<"{","\"","r","e","p","o","r","t","s","\"",":","[","{","\"","a","\"",":","\"","b","\"","}","]","}">>,
      <<"[","{","\"","a","\"",":","1","}",",","{","\"","b","\"",":","2","}","]">>,
      <<"{","\"","a","\"",":","\"","}","\"","}">>,
      <<"{","\"","a","\"",":","\"","x","\\","\"","}","\"","}">>,
      <<"{","\"","a","\"",":","\"","b","\\","\\","\"","}">>,
      <<"{","\"","r","e","p","o","r","t","s","\"",":","5","}">>,
      <<"{","\"","r","e","p","o","r","t","s","\"",":","[","]",",","\"","r","e","p","o","r","t","s","\"",":","n","u","l","l","}">>,
      <<" ","["," ","]"," ">>,
      <<"{","}">>,
      <<"7">>,
      <<"0">>,
      <<"n","u","l","l">>,
      <<"\"","s","\"">>,
      <<"\"","\"">>,
      <<"t","r","u","e">>,
      <<"f","a","l","s","e">>,
      <<"{","\"","a","\"",":","1">>,
      <<"{","a","}">>,
      <<>> }

\* What follows it
Suffixes == { <<>>, <<" ","o","k">>, <<"\n","'","'","'">>, <<"<","/","j","s","o","n",">">>, <<" ","}">> }

ResponseTexts == {p \o c \o s : p \in Prefixes, c \in Cores, s \in Suffixes}

NoSalvage == [content |-> <<>>, balanced |-> NULL, threw |-> FALSE, reports |-> <<>>, pushed |-> FALSE]

InitSalvage ==
    /\ HandlerIdle
    /\ buckets = <<>>
    /\ NcIdle
    /\ DetIdle
    /\ RkIdle /\ NnIdle /\ SfIdle /\ MjIdle
    /\ ExtIdle
    /\ svIn \in ResponseTexts
    /\ svOut = NoSalvage
    /\ svPc = "call"

\* lines 242-249 for one response text: content is trimmed, an empty content
\* is skipped, and the parsed value is pushed to runs unless parseModelJson throws
SvRun ==
    /\ svPc = "call"
    /\ LET content == trim(svIn)
           p == parseModelJson(content)
       IN svOut' = IF content = <<>> THEN NoSalvage
                   ELSE [content |-> content,
                         balanced |-> extractBalancedJson(content),
                         threw |-> p.threw,
                         reports |-> p.reports,
                         pushed |-> ~p.threw]
    /\ svPc' = "done"
    /\ UNCHANGED <<svIn, handlerVars, buckets, ncVars, detVars, rkVars, nnVars, sfVars, mjVars, extVars>>

NextSalvage == SvRun

SpecSalvage == InitSalvage /\ [][NextSalvage]_vars

Salvaged == svPc = "done" /\ svOut.content # <<>>

\* the four candidates in the claimed order; NULL where there is none
Tried ==
    <<svOut.content,
      stripCodeFences(svOut.content),
      betweenTags(svOut.content, <<"<","j","s","o","n",">">>, <<"<","/","j","s","o","n",">">>),
      extractBalancedJson(svOut.content)>>

Parses(n) == Tried[n] # NULL /\ JsonParse(Tried[n]).ok

\* C16: parseModelJson tries the raw text, the fence-stripped text, the
\* content between <json> and </json> and the first balanced span, in this
\* order, and returns the coercion of the first that parses; it throws if and
\* only if none parses.
C16_FirstParseWins ==
    Salvaged =>
        /\ svOut.threw <=> \A n \in 1..4 : ~Parses(n)
        /\ \A n \in 1..4 :
              (Parses(n) /\ \A m \in 1..(n - 1) : ~Parses(m)) =>
                  svOut.reports = coerceToExtractResponse(JsonParse(Tried[n]).val)

\* the fence-stripped text and the balanced span both parse, to different values
C16_Witness ==
    /\ Salvaged
    /\ ~Parses(1) /\ Parses(2) /\ Parses(4)
    /\ JsonParse(Tried[2]).val # JsonParse(Tried[4]).val
    /\ Len(svOut.reports) = 2

\* the position (from 0) of the earliest opening brace or bracket, -1 if none
FirstOpen ==
    LET a == indexOf(svOut.content, <<"{">>, 0)
        b == indexOf(svOut.content, <<"[">>, 0)
    IN IF a = -1 THEN b ELSE IF b = -1 THEN a ELSE Min(a, b)

\* C18: extractBalancedJson returns the balanced span that starts at the
\* earliest opening brace or bracket: when a [ comes before the first {, the
\* span is the whole array and not its first object.
C18_SpanFromEarliestOpen ==
    (Salvaged /\ svOut.balanced # NULL) =>
        svOut.balanced = slice(svOut.content, FirstOpen, FirstOpen + Len(svOut.balanced))

\* the well-formed JSON objects that start at the first {
ObjectsAtFirstBrace ==
    LET a == indexOf(svOut.content, <<"{">>, 0)
    IN IF a = -1 THEN {}
       ELSE {o \in {slice(svOut.content, a, e) : e \in (a + 1)..Len(svOut.content)} :
                o[Len(o)] = "}" /\ JsonParse(o).ok}

\* C19: braces and brackets inside a double-quoted string never change the
\* depth, an escaped quote does not end the string and a quote after an
\* escaped backslash does; hence for a text whose first { opens a well-formed
\* JSON object the span returned is exactly that object.
C19_SpanIsTheObject ==
    Salvaged => \A o \in ObjectsAtFirstBrace : svOut.balanced = o

\* the same property for objects whose strings hold no escaped backslash
C19_SpanIsTheObjectNoBackslashPair ==
    Salvaged =>
        \A o \in ObjectsAtFirstBrace :
            ~includes(o, <<"\\", "\\">>) => svOut.balanced = o

\* C20: when the text itself parses, the result is the value when it is an
\* array, its reports member when it is an object whose reports is an array,
\* a list holding the value when it is any other object, and the empty list,
\* not a failure, for null, a number, a string or a boolean; and the run is
\* pushed to runs, so it counts as a salvaged run.
C20_Coercion ==
    (Salvaged /\ JsonParse(svOut.content).ok) =>
        LET val == JsonParse(svOut.content).val
            isReports == /\ val.t = "object"
                         /\ \E n \in DOMAIN val.keys :
                               /\ val.keys[n] = <<"r","e","p","o","r","t","s">>
                               /\ \A m \in (n + 1)..Len(val.keys) : val.keys[m] # <<"r","e","p","o","r","t","s">>
                               /\ val.elems[n].t = "array"
        IN /\ ~svOut.threw
           /\ svOut.pushed
           /\ svOut.reports =
                 (IF val.t = "array" THEN val.elems
                  ELSE IF isReports THEN GetProp(val, <<"r","e","p","o","r","t","s">>).elems
                  ELSE IF val.t = "object" THEN <<val>>
                  ELSE <<>>)

\* a text that is a JSON scalar: an empty run that is pushed
C20_Witness ==
    /\ Salvaged
    /\ JsonParse(svOut.content).ok
    /\ JsonParse(svOut.content).val.t \in {"number", "string", "boolean", "null"}
    /\ Truthy(JsonParse(svOut.content).val)
    /\ svOut.reports = <<>>
    /\ svOut.pushed

---------------------------------------------------------------------------
\* Bucket keys of two candidates (makeKey, lines 144-158, and the bucket
\* loop, lines 265-289)

KeyLocs == {<<"x">>, <<"X"," ">>, <<"x","|">>}
KeyTimes == {NULL, T1000, T1000b, T1001, TSoon}
KeySevs == {NULL, SevHigh}
KeyNeeds == {<<>>, <<<<"a">>, <<"b">>>>, <<<<"B"," ">>, <<"a">>>>, <<<<"a",",","b">>>>, <<<<"|">>>>}
KeyHints == {<<"K","1">>, <<"k","1"," ">>, <<"k","2">>, <<" ">>}

\* candidates without a dedupe_key (null, or the empty string)
DerivedCandidates ==
    {Rep(loc, time, sev, needs, NULL, NULL) :
        loc \in KeyLocs, time \in KeyTimes, sev \in KeySevs, needs \in KeyNeeds}
    \cup {Rep(<<"x">>, time, NULL, needs, <<>>, NULL) :
            time \in {NULL, T1000}, needs \in {<<>>, <<<<"a">>, <<"b">>>>}}

\* candidates with a dedupe_key
ExplicitCandidates ==
    {Rep(loc, time, sev, needs, dk, NULL) :
        loc \in {<<"x">>, <<"y"," ">>}, time \in {NULL, T1000}, sev \in KeySevs,
        needs \in {<<>>, <<<<"a">>, <<"b">>>>}, dk \in KeyHints}

KeyCandidates == DerivedCandidates \cup ExplicitCandidates

InitKey ==
    /\ HandlerIdle
    /\ buckets = <<>>
    /\ NcIdle
    /\ DetIdle
    /\ FnIdle
    /\ SlIdle
    /\ kyIn \in {<<a, b>> : a \in KeyCandidates, b \in KeyCandidates}
    /\ kyOut = <<>>
    /\ kyPc = "call"

\* both candidates are reports of the salvaged runs: lines 266-287
KyRun ==
    /\ kyPc = "call"
    /\ kyOut' = [keys |-> <<makeKey(kyIn[1]), makeKey(kyIn[2])>>,
                 buckets |-> pushAll(FreshBuckets, kyIn)]
    /\ kyPc' = "done"
    /\ UNCHANGED <<kyIn, handlerVars, buckets, ncVars, detVars, fnVars, slVars>>

NextKey == KyRun

SpecKey == InitKey /\ [][NextKey]_vars

\* r.dedupe_key is truthy
HasKey(r) == r.dedupe_key # NULL /\ r.dedupe_key # <<>>

SameBucket == Len(kyOut.buckets) = 1 /\ Len(kyOut.buckets[1].locs) = 2

\* C21: two candidates whose dedupe_key values are non-empty and equal after
\* trimming and lower-casing fall into the same bucket, whatever their
\* location, time, severity and needs; a candidate with a dedupe_key never
\* shares a bucket with a candidate without one.
C21_ExplicitKeys ==
    kyPc = "done" =>
        /\ ( /\ HasKey(kyIn[1]) /\ HasKey(kyIn[2])
             /\ norm(kyIn[1].dedupe_key) # <<>>
             /\ norm(kyIn[1].dedupe_key) = norm(kyIn[2].dedupe_key) ) => SameBucket
        /\ (HasKey(kyIn[1]) # HasKey(kyIn[2])) => ~SameBucket

\* same hint up to case and blanks, everything else different
C21_Witness ==
    /\ kyPc = "done"
    /\ HasKey(kyIn[1]) /\ HasKey(kyIn[2])
    /\ kyIn[1].dedupe_key # kyIn[2].dedupe_key
    /\ norm(kyIn[1].location_text) # norm(kyIn[2].location_text)
    /\ minuteBucket(kyIn[1].time_iso) # minuteBucket(kyIn[2].time_iso)
    /\ kyIn[1].severity # kyIn[2].severity
    /\ kyIn[1].needs # kyIn[2].needs
    /\ SameBucket

\* the four components of a derived key
KeyLoc(r) == norm(r.location_text)
KeyMinute(r) == minuteBucket(r.time_iso)
KeySev(r) == IF r.severity = NULL THEN <<>> ELSE r.severity
KeyTokens(r) == sort([n \in DOMAIN r.needs |-> trim(toLowerCase(r.needs[n]))])

SameComponents(a, b) ==
    /\ KeyLoc(a) = KeyLoc(b)
    /\ KeyMinute(a) = KeyMinute(b)
    /\ KeySev(a) = KeySev(b)
    /\ KeyTokens(a) = KeyTokens(b)

\* C22: two candidates without a dedupe_key get the same bucket key if and
\* only if they agree on location, minute, severity and sorted need tokens,
\* whatever characters their location or need strings contain.
C22_DerivedKeyIffComponents ==
    (kyPc = "done" /\ ~HasKey(kyIn[1]) /\ ~HasKey(kyIn[2])) =>
        (SameBucket <=> SameComponents(kyIn[1], kyIn[2]))

\* no | in the location and no | or , in a need
PlainText(r) ==
    /\ ~includes(r.location_text, <<"|">>)
    /\ \A n \in DOMAIN r.needs :
          ~includes(r.needs[n], <<"|">>) /\ ~includes(r.needs[n], <<",">>)

\* the same property for candidates whose strings hold no separator
C22_DerivedKeyIffComponentsPlain ==
    (kyPc = "done" /\ ~HasKey(kyIn[1]) /\ ~HasKey(kyIn[2])
       /\ PlainText(kyIn[1]) /\ PlainText(kyIn[2])) =>
        (SameBucket <=> SameComponents(kyIn[1], kyIn[2]))

---------------------------------------------------------------------------
\* The reports slice (src/slices/reportsSlice.ts) and the thunks that the
\* triage view dispatches (src/components/ReportTriage.tsx)

MaxInFlight == 2
MaxAnnotate == 1

\* A report: its id, its content, and whether it carries the annotations
\* (risk_score, suggestions) of annotateReports.
Report(id, text, annotated) == [id |-> id, text |-> text, annotated |-> annotated]

ReportIds == {"r1", "r2"}

StoredReports ==
    {Report("r1", t, a) : t \in {"v1", "v2"}, a \in BOOLEAN}
    \cup {Report("r2", "v1", a) : a \in BOOLEAN}

\* action.payload of upsertReport
UpsertPayloads == {r \in StoredReports : ~r.annotated}

\* action.payload.reports of a fulfilled extraction
Incoming ==
    { <<>>,
      <<Report("r1", "v1", FALSE)>>,
      <<Report("r2", "v1", FALSE)>>,
      <<Report("r1", "v2", FALSE), Report("r2", "v1", FALSE)>>,
      <<Report("r1", "v1", FALSE), Report("r1", "v2", FALSE)>> }

\* action.error.message of a rejected extraction
ErrorMessages == {"", "HTTP 503"}

\* byId.set(r.id, r) on a Map kept in insertion order
mapSet(byId, r) ==
    IF \E n \in DOMAIN byId : byId[n].id = r.id
    THEN [n \in DOMAIN byId |-> IF byId[n].id = r.id THEN r ELSE byId[n]]
    ELSE Append(byId, r)

RECURSIVE mapSetAll(_, _)
mapSetAll(byId, rs) ==
    IF rs = <<>> THEN byId ELSE mapSetAll(mapSet(byId, Head(rs)), Tail(rs))

\* mutant of mergeById: the incoming reports replace the stored ones
mergeByIdReplace(items, incoming) == mapSetAll(<<>>, incoming)

\* new Map(state.items.map((r) => [r.id, r])); for (const r of incoming)
\* byId.set(r.id, r); Array.from(byId.values())
mergeById(items, incoming) == mapSetAll(mapSetAll(<<>>, items), incoming)

\* lines 115-117: findIndex, then replace or push
upsert(items, rep) ==
    IF \E n \in DOMAIN items : items[n].id = rep.id
    THEN LET idx == CHOOSE n \in DOMAIN items :
                        /\ items[n].id = rep.id
                        /\ \A m \in 1..(n - 1) : items[m].id # rep.id
         IN [items EXCEPT ![idx] = rep]
    ELSE Append(items, rep)

\* lines 91-100: every report of the snapshot with its annotations
annotate(current) == [n \in DOMAIN current |-> [current[n] EXCEPT !.annotated = TRUE]]

\* mutant of rejectedMessage: the message of the error as it is
rejectedMessageRaw(message, fallback) == message

\* action.error.message || fallback
rejectedMessage(message, fallback) == IF message = "" THEN fallback ELSE message

Action(type, reports) == [type |-> type, reports |-> reports]

\* the variables of the other parts of the model
slOthers == <<handlerVars, buckets, ncVars, detVars, fnVars, kyVars>>

InitSlice ==
    /\ HandlerIdle
    /\ buckets = <<>>
    /\ NcIdle
    /\ DetIdle
    /\ FnIdle
    /\ KyIdle
    /\ slItems = <<>>
    /\ slStatus = "idle"
    /\ slError = "null"
    /\ slPending = <<0, 0>>
    /\ slAnnotating = <<>>
    /\ slAction = Action("@@INIT", <<>>)

\* lines 109-113
ClearReports ==
    /\ slItems' = <<>>
    /\ slStatus' = "idle"
    /\ slError' = "null"
    /\ slAction' = Action("reports/clearReports", <<>>)
    /\ UNCHANGED <<slPending, slAnnotating, slOthers>>

\* lines 114-118
UpsertReport ==
    \E rep \in UpsertPayloads :
        /\ slItems' = upsert(slItems, rep)
        /\ slAction' = Action("reports/upsertReport", <<rep>>)
        /\ UNCHANGED <<slStatus, slError, slPending, slAnnotating, slOthers>>

\* lines 119-121
RemoveReport ==
    \E id \in ReportIds :
        /\ slItems' = SelectSeq(slItems, LAMBDA r : r.id # id)
        /\ slAction' = Action("reports/removeReport", <<>>)
        /\ UNCHANGED <<slStatus, slError, slPending, slAnnotating, slOthers>>

\* lines 125-128: extractReports is dispatched (ReportTriage.tsx 125, 133)
ExtractPending ==
    /\ slPending[1] + slPending[2] < MaxInFlight
    /\ slPending' = <<slPending[1] + 1, slPending[2]>>
    /\ slStatus' = "loading"
    /\ slError' = "null"
    /\ slAction' = Action("reports/extract/pending", <<>>)
    /\ UNCHANGED <<slItems, slAnnotating, slOthers>>

\* lines 129-135
ExtractFulfilled ==
    /\ slPending[1] > 0
    /\ \E incoming \in Incoming :
          /\ slItems' = mergeById(slItems, incoming)
          /\ slAction' = Action("reports/extract/fulfilled", incoming)
    /\ slPending' = <<slPending[1] - 1, slPending[2]>>
    /\ slStatus' = "succeeded"
    /\ UNCHANGED <<slError, slAnnotating, slOthers>>

\* lines 136-139
ExtractRejected ==
    /\ slPending[1] > 0
    /\ \E message \in ErrorMessages :
          slError' = rejectedMessage(message, "Extraction failed")
    /\ slPending' = <<slPending[1] - 1, slPending[2]>>
    /\ slStatus' = "failed"
    /\ slAction' = Action("reports/extract/rejected", <<>>)
    /\ UNCHANGED <<slItems, slAnnotating, slOthers>>

\* lines 141-144: extractReportsEnsemble is dispatched (ReportTriage.tsx 118)
EnsemblePending ==
    /\ slPending[1] + slPending[2] < MaxInFlight
    /\ slPending' = <<slPending[1], slPending[2] + 1>>
    /\ slStatus' = "loading"
    /\ slError' = "null"
    /\ slAction' = Action("reports/extractEnsemble/pending", <<>>)
    /\ UNCHANGED <<slItems, slAnnotating, slOthers>>

\* lines 145-151
EnsembleFulfilled ==
    /\ slPending[2] > 0
    /\ \E incoming \in Incoming :
          /\ slItems' = mergeById(slItems, incoming)
          /\ slAction' = Action("reports/extractEnsemble/fulfilled", incoming)
    /\ slPending' = <<slPending[1], slPending[2] - 1>>
    /\ slStatus' = "succeeded"
    /\ UNCHANGED <<slError, slAnnotating, slOthers>>

\* lines 152-155
EnsembleRejected ==
    /\ slPending[2] > 0
    /\ \E message \in ErrorMessages :
          slError' = rejectedMessage(message, "Ensemble extraction failed")
    /\ slPending' = <<slPending[1], slPending[2] - 1>>
    /\ slStatus' = "failed"
    /\ slAction' = Action("reports/extractEnsemble/rejected", <<>>)
    /\ UNCHANGED <<slItems, slAnnotating, slOthers>>

\* lines 86-102: annotateReports is dispatched; the payload creator reads the
\* state at once and computes the items it will return, or throws (a need that
\* makes suggestFacilities throw); no reducer handles annotate/pending
AnnotatePending ==
    /\ Len(slAnnotating) < MaxAnnotate
    /\ \E threw \in BOOLEAN :
          slAnnotating' = Append(slAnnotating,
                                 [threw |-> threw,
                                  items |-> IF threw THEN <<>> ELSE annotate(slItems)])
    /\ slAction' = Action("reports/annotate/pending", <<>>)
    /\ UNCHANGED <<slItems, slStatus, slError, slPending, slOthers>>

\* lines 157-162
AnnotateFulfilled ==
    /\ slAnnotating # <<>>
    /\ ~Head(slAnnotating).threw
    /\ slItems' = mergeById(slItems, Head(slAnnotating).items)
    /\ slAnnotating' = Tail(slAnnotating)
    /\ slAction' = Action("reports/annotate/fulfilled", Head(slAnnotating).items)
    /\ UNCHANGED <<slStatus, slError, slPending, slOthers>>

\* annotate/rejected has no case in extraReducers
AnnotateRejected ==
    /\ slAnnotating # <<>>
    /\ Head(slAnnotating).threw
    /\ slAnnotating' = Tail(slAnnotating)
    /\ slAction' = Action("reports/annotate/rejected", <<>>)
    /\ UNCHANGED <<slItems, slStatus, slError, slPending, slOthers>>

NextSlice ==
    \/ ClearReports \/ UpsertReport \/ RemoveReport
    \/ ExtractPending \/ ExtractFulfilled \/ ExtractRejected
    \/ EnsemblePending \/ EnsembleFulfilled \/ EnsembleRejected
    \/ AnnotatePending \/ AnnotateFulfilled \/ AnnotateRejected

SpecSlice == InitSlice /\ [][NextSlice]_vars


IdsOf(items) == {items[n].id : n \in DOMAIN items}

InFlight == slPending[1] + slPending[2]

\* C27: status is 'loading' whenever at least one extraction request
\* (extractReports or extractReportsEnsemble) is still in flight: with two
\* overlapping extractions, the completion or failure of one leaves the
\* status 'loading' while the other is pending.
C27_LoadingWhileInFlight ==
    /\ [](slAction.type \in {"reports/extract/pending", "reports/extractEnsemble/pending"}
            => slStatus = "loading")
    /\ [][(InFlight' < InFlight /\ InFlight' > 0 /\ slStatus = "loading")
             => slStatus' = "loading"]_slVars

\* the status by itself, whatever was dispatched in between
C27_LoadingInEveryState == InFlight > 0 => slStatus = "loading"

\* C28: when an annotateReports run is fulfilled, a report that was removed
\* after the run took its snapshot is not inserted again, and a report that
\* was edited after the snapshot is not overwritten with the snapshot's copy.
C28_AnnotationKeepsNewerState ==
    [][(slAnnotating # <<>> /\ slAnnotating' = Tail(slAnnotating)
          /\ slAction.type \in {"reports/removeReport", "reports/upsertReport"}
          /\ slAction'.type = "reports/annotate/fulfilled") =>
            \A n \in DOMAIN Head(slAnnotating).items :
                LET r == Head(slAnnotating).items[n]
                IN /\ r.id \notin IdsOf(slItems) => r.id \notin IdsOf(slItems')
                   /\ \A m \in DOMAIN slItems :
                         (slItems[m].id = r.id /\ slItems[m].text # r.text) =>
                             \E q \in DOMAIN slItems' : slItems'[q] = slItems[m]]_slVars

ExtractionFulfilled ==
    {"reports/extract/fulfilled", "reports/extractEnsemble/fulfilled"}

ExtractionRejected ==
    {"reports/extract/rejected", "reports/extractEnsemble/rejected"}

\* C29: no two reports in items share an id, and a fulfilled extraction
\* neither removes nor alters a stored report whose id is not in its payload.
C29_UniqueIdsAndOthersKept ==
    /\ [](\A n, m \in DOMAIN slItems : slItems[n].id = slItems[m].id => n = m)
    /\ [][(InFlight' < InFlight /\ slAction'.type \in ExtractionFulfilled) =>
             \A m \in DOMAIN slItems :
                 slItems[m].id \notin IdsOf(slAction'.reports) =>
                     \E q \in DOMAIN slItems' : slItems'[q] = slItems[m]]_slVars

\* an extraction was fulfilled with reports, next to an annotated stored
\* report with another id
C29_Witness ==
    /\ slAction.type \in ExtractionFulfilled
    /\ slAction.reports # <<>>
    /\ Len(slItems) = 2
    /\ \E m \in DOMAIN slItems :
          slItems[m].id \notin IdsOf(slAction.reports) /\ slItems[m].annotated

\* C30: a rejected extraction leaves items unchanged and puts the slice in
\* status 'failed' with a non-empty error message; the error is null in every
\* state whose status is 'loading'.
C30_RejectedExtraction ==
    /\ [](slStatus = "loading" => slError = "null")
    /\ [][(InFlight' < InFlight /\ slAction'.type \in ExtractionRejected) =>
             /\ slItems' = slItems
             /\ slStatus' = "failed"
             /\ slError' \notin {"null", ""}]_slVars

\* the ensemble extraction was rejected with an empty message while reports
\* were stored
C30_Witness ==
    /\ slAction.type = "reports/extractEnsemble/rejected"
    /\ slStatus = "failed"
    /\ slError = "Ensemble extraction failed"
    /\ slItems # <<>>

===========================================================================
